---------------------------- MODULE Spec2Model ----------------------------
(***************************************************************************)
(* Model of the news pipeline of jisu-777/news_new: exact-link dedupe and  *)
(* publication-time sort (utils/dedupe.py, utils/time_window.py), the      *)
(* print-edition classifier passes (services/gpt_judger.py) and the        *)
(* orchestrator execute_news_search (app.py).                              *)
(*                                                                         *)
(* Conventions.  A Python str is a sequence of one-character strings, so   *)
(* that '' is <<>> and slicing, prefix tests and lexicographic comparison  *)
(* are computed.  A Python dict is a function whose DOMAIN is its key set, *)
(* so a missing key is a key outside DOMAIN.  Python object identity of a  *)
(* news item is the field "id".  Floats in [0.0, 1.0] with at most two     *)
(* decimals are integers in hundredths (0.7 is 70).                        *)
(***************************************************************************)
EXTENDS Integers, Sequences, FiniteSets, TLC

VARIABLES
    fn_pc,      \* harness of a pure function: "ready" or "done"
    fn_op,      \* name of the function that produced fn_out
    fn_in,      \* its argument (a list of news items)
    fn_out      \* its return value (of search_by_group: its frame)

fnVars == <<fn_pc, fn_op, fn_in, fn_out>>

VARIABLES
    items,          \* the news item objects: identity -> dict (mutated in place)
    j_pc,           \* classifier pass: "idle", "loop" or "done"
    method,         \* the method of gpt_judger.py that runs the pass
    j_news_items,   \* its news_items argument, a list of item identities
    j_threshold,    \* its threshold argument, in hundredths
    j_batch_size,   \* its batch_size argument (0: the method takes none)
    j_i,            \* loop index i: batch start (batched) or enumerate index
    j_k,            \* position inside the current batch
    judged_items,   \* the local list judged_items
    returned,       \* the value the method returned
    requests        \* the classifier calls issued so far: <<identity, reply>>

judgeVars == <<items, j_pc, method, j_news_items, j_threshold, j_batch_size,
               j_i, j_k,
               judged_items, returned, requests>>

VARIABLES
    env,              \* os.environ: the variables that are set and non-empty
    p_pc,             \* app.py: "startup", "stopped", "main", or the stage
                      \* execute_news_search is at, or "returned"
    use_gpt,          \* arguments of execute_news_search
    threshold,
    start_time,
    end_time,
    raw_results,      \* its locals, as lists of item identities
    filtered_results,
    cleaned_results,
    news_results,     \* the value it returned
    stages,           \* the stages it has invoked so far, in order
    errors            \* the missing-credential errors raised so far

pipeVars == <<env, p_pc, use_gpt, threshold, start_time, end_time, raw_results,
              filtered_results, cleaned_results, news_results, stages, errors>>

vars == <<fnVars, judgeVars, pipeVars>>

-----------------------------------------------------------------------------
(* Bounds of the model *)

MaxDedupeItems == 3

MaxSortItems == 3

MaxJudgeItems == 2

-----------------------------------------------------------------------------
(* Python built-ins *)

\* dict.get(key, default)
Get(d, key, default) == IF key \in DOMAIN d THEN d[key] ELSE default

\* truth value of a str or list: empty is falsy
Truthy(s) == s # <<>>

\* reversed(list)
Reverse(s) == [k \in 1..Len(s) |-> s[Len(s) + 1 - k]]

\* the lists of length at most n over S
SeqsUpTo(S, n) == UNION {[1..k -> S] : k \in 0..n}

\* a list as handed to a function: the object at position i carries identity i
WithIds(fields) == [i \in 1..Len(fields) |-> fields[i] @@ [id |-> i]]

-----------------------------------------------------------------------------
(* utils/dedupe.py: remove_duplicate_links *)

\* the loop of lines 25-29 over the reversed list
RECURSIVE DedupeScan(_, _, _)
DedupeScan(rev, seen_links, unique_items) ==
    IF rev = <<>> THEN unique_items
    ELSE LET item == Head(rev)
             link == Get(item, "link", <<>>)
         IN  IF Truthy(link) /\ link \notin seen_links
             THEN DedupeScan(Tail(rev), seen_links \cup {link},
                             Append(unique_items, item))
             ELSE DedupeScan(Tail(rev), seen_links, unique_items)

\* a forward traversal, which keeps the first-arriving copy
remove_duplicate_links_forward(news_items) ==
    IF news_items = <<>> THEN <<>>
    ELSE DedupeScan(news_items, {}, <<>>)

\* without the restoration of the input order (line 32)
remove_duplicate_links_unrestored(news_items) ==
    IF news_items = <<>> THEN <<>>
    ELSE DedupeScan(Reverse(news_items), {}, <<>>)

remove_duplicate_links(news_items) ==
    IF news_items = <<>> THEN <<>>
    ELSE Reverse(DedupeScan(Reverse(news_items), {}, <<>>))

-----------------------------------------------------------------------------
(* Specification SpecDedupe: remove_duplicate_links on every bounded list *)

LinkA == <<"h", "t", "t", "p", ":", "/", "/", "a", ".", "k", "r", "/", "1">>
LinkB == <<"h", "t", "t", "p", ":", "/", "/", "b", ".", "k", "r", "/", "2">>

\* items with a link, with an empty link, and without the key
DedupeFields == {[link |-> LinkA], [link |-> LinkB], [link |-> <<>>],
                 [title |-> <<"t">>]}

\* no classifier pass is running
JudgeIdle ==
    /\ items = <<>>
    /\ j_pc = "idle"
    /\ method = "none"
    /\ j_news_items = <<>>
    /\ j_threshold = 0
    /\ j_batch_size = 0
    /\ j_i = 0
    /\ j_k = 0
    /\ judged_items = <<>>
    /\ returned = <<>>
    /\ requests = <<>>

\* app.py is not running
PipeIdle ==
    /\ env = {}
    /\ p_pc = "none"
    /\ use_gpt = FALSE
    /\ threshold = 0
    /\ start_time = 0
    /\ end_time = 0
    /\ raw_results = <<>>
    /\ filtered_results = <<>>
    /\ cleaned_results = <<>>
    /\ news_results = <<>>
    /\ stages = <<>>
    /\ errors = <<>>

InitDedupe ==
    /\ JudgeIdle
    /\ PipeIdle
    /\ fn_pc = "ready"
    /\ fn_op = "none"
    /\ fn_in \in {WithIds(f) : f \in SeqsUpTo(DedupeFields, MaxDedupeItems)}
    /\ fn_out = <<>>

CallRemoveDuplicateLinks ==
    /\ fn_pc = "ready"
    /\ fn_pc' = "done"
    /\ fn_op' = "remove_duplicate_links"
    /\ fn_out' = remove_duplicate_links(fn_in)
    /\ UNCHANGED <<fn_in, judgeVars, pipeVars>>

\* remove_duplicate_links on the list the first call returned
CallRemoveDuplicateLinksAgain ==
    /\ fn_pc = "done"
    /\ fn_op = "remove_duplicate_links"
    /\ fn_pc' = "done again"
    /\ fn_out' = remove_duplicate_links(fn_out)
    /\ UNCHANGED <<fn_op, fn_in, judgeVars, pipeVars>>

NextDedupe == CallRemoveDuplicateLinks \/ CallRemoveDuplicateLinksAgain

SpecDedupe == InitDedupe /\ [][NextDedupe]_vars

DedupeDone == fn_pc = "done" /\ fn_op = "remove_duplicate_links"

\* positions of the input whose link is the non-empty link l
WithLink(list, l) == {i \in 1..Len(list) : Get(list[i], "link", <<>>) = l}

NonEmptyLinks(list) ==
    {Get(list[i], "link", <<>>) : i \in 1..Len(list)} \ {<<>>}

SetMax(S) == CHOOSE m \in S : \A x \in S : x <= m

\* the output is a sublist of the input: input objects, in input order
IsSublistOfInput(out, in) ==
    /\ \A k \in 1..Len(out) :
          out[k].id \in 1..Len(in) /\ out[k] = in[out[k].id]
    /\ \A a, b \in 1..Len(out) : a < b => out[a].id < out[b].id

\* C1: among the items sharing one non-empty link exactly one survives, it
\* is the copy with the highest input index, and the survivors keep the
\* relative order they had in the input.
C1_LastCopySurvives ==
    DedupeDone =>
        /\ IsSublistOfInput(fn_out, fn_in)
        /\ \A l \in NonEmptyLinks(fn_in) :
              /\ Cardinality(WithLink(fn_out, l)) = 1
              /\ \A k \in WithLink(fn_out, l) :
                    fn_out[k].id = SetMax(WithLink(fn_in, l))

\* a duplicated link whose first copy was removed while a later item with
\* another link also survived
C1_Witness ==
    /\ DedupeDone
    /\ Len(fn_out) >= 2
    /\ \E i, j \in 1..Len(fn_in) :
          /\ i < j
          /\ Truthy(Get(fn_in[i], "link", <<>>))
          /\ Get(fn_in[i], "link", <<>>) = Get(fn_in[j], "link", <<>>)
          /\ \A k \in 1..Len(fn_out) : fn_out[k].id # i
          /\ \E k \in 1..Len(fn_out) : fn_out[k].id = j

\* C2: every item whose link is empty or missing is present in the output.
C2_EmptyLinkKept ==
    DedupeDone =>
        \A i \in 1..Len(fn_in) :
            ~Truthy(Get(fn_in[i], "link", <<>>)) =>
                \E k \in 1..Len(fn_out) : fn_out[k] = fn_in[i]

-----------------------------------------------------------------------------
(* str comparison and digits *)

\* the characters the model uses, in code point order (ASCII 32..122;
\* a Hangul syllable is written as its romanisation and is one character)
AsciiOrder ==
    <<" ", "!", "+", ",", "-", ".", "/",
      "0", "1", "2", "3", "4", "5", "6", "7", "8", "9", ":", "?",
      "A", "B", "C", "D", "E", "F", "G", "H", "I", "J", "K", "L", "M",
      "N", "O", "P", "Q", "R", "S", "T", "U", "V", "W", "X", "Y", "Z",
      "a", "b", "c", "d", "e", "f", "g", "h", "i", "j", "k", "l", "m",
      "n", "o", "p", "q", "r", "s", "t", "u", "v", "w", "x", "y", "z">>

\* rank of a character in code point order
OrdTable ==
    [c \in {AsciiOrder[i] : i \in 1..Len(AsciiOrder)} |->
        CHOOSE i \in 1..Len(AsciiOrder) : AsciiOrder[i] = c]

Ord(c) == OrdTable[c]

\* a < b for str: lexicographic by code point, a proper prefix is smaller
StrLess(a, b) ==
    LET n    == IF Len(a) < Len(b) THEN Len(a) ELSE Len(b)
        diff == {i \in 1..n : a[i] # b[i]}
    IN  IF diff = {} THEN Len(a) < Len(b)
        ELSE LET i == CHOOSE m \in diff : \A x \in diff : m <= x
             IN  Ord(a[i]) < Ord(b[i])

Digits == <<"0", "1", "2", "3", "4", "5", "6", "7", "8", "9">>

IsDigit(c) == \E v \in 1..10 : Digits[v] = c

DigitVal(c) == (CHOOSE v \in 1..10 : Digits[v] = c) - 1

AllDigits(s) == \A i \in 1..Len(s) : IsDigit(s[i])

\* int() of a non-empty digit string
RECURSIVE DigitsVal(_)
DigitsVal(s) ==
    IF s = <<>> THEN 0
    ELSE 10 * DigitsVal(SubSeq(s, 1, Len(s) - 1)) + DigitVal(s[Len(s)])

\* n written with exactly w digits (the provider's zero padding)
RECURSIVE Pad(_, _)
Pad(n, w) == IF w = 0 THEN <<>> ELSE Append(Pad(n \div 10, w - 1), Digits[(n % 10) + 1])

UpperCase == <<"A", "B", "C", "D", "E", "F", "G", "H", "I", "J", "K", "L", "M",
               "N", "O", "P", "Q", "R", "S", "T", "U", "V", "W", "X", "Y", "Z">>
LowerCase == <<"a", "b", "c", "d", "e", "f", "g", "h", "i", "j", "k", "l", "m",
               "n", "o", "p", "q", "r", "s", "t", "u", "v", "w", "x", "y", "z">>

\* str.lower() of one character
LowerChar(c) ==
    IF \E n \in 1..26 : UpperCase[n] = c
    THEN LowerCase[CHOOSE n \in 1..26 : UpperCase[n] = c]
    ELSE c

\* str.lower() (ASCII letters; the other characters of the model have no case)
Lower(s) == [n \in 1..Len(s) |-> LowerChar(s[n])]

-----------------------------------------------------------------------------
(* utils/time_window.py: parse_pubdate *)

\* Optional[T]: None, or a value
NoneValue == [none |-> TRUE]

Some(v) == [value |-> v]

WeekdayNames ==
    {<<"M", "o", "n">>, <<"T", "u", "e">>, <<"W", "e", "d">>, <<"T", "h", "u">>,
     <<"F", "r", "i">>, <<"S", "a", "t">>, <<"S", "u", "n">>}

MonthNames ==
    <<<<"J", "a", "n">>, <<"F", "e", "b">>, <<"M", "a", "r">>, <<"A", "p", "r">>,
      <<"M", "a", "y">>, <<"J", "u", "n">>, <<"J", "u", "l">>, <<"A", "u", "g">>,
      <<"S", "e", "p">>, <<"O", "c", "t">>, <<"N", "o", "v">>, <<"D", "e", "c">>>>

IsLeap(y) == (y % 4 = 0 /\ y % 100 # 0) \/ y % 400 = 0

DaysInMonth(y, m) ==
    IF m = 2 THEN (IF IsLeap(y) THEN 29 ELSE 28)
    ELSE IF m \in {4, 6, 9, 11} THEN 30 ELSE 31

\* days from 2000-01-01 to the civil date y-m-d (proleptic Gregorian)
DaysFromCivil(y, m, d) ==
    LET yy  == IF m <= 2 THEN y - 1 ELSE y
        era == yy \div 400
        yoe == yy - era * 400
        mp  == IF m > 2 THEN m - 3 ELSE m + 9
        doy == (153 * mp + 2) \div 5 + d - 1
        doe == yoe * 365 + yoe \div 4 - yoe \div 100 + doy
    IN  era * 146097 + doe - 719468 - 10957

\* The string as the provider writes it: "Mon, 18 Dec 2023 01:30:00 +0900"
FormatPubDate(wd, d, mon, y, hh, mi, ss, sign, oh, om) ==
    wd \o <<",", " ">> \o Pad(d, 2) \o <<" ">> \o MonthNames[mon] \o <<" ">>
       \o Pad(y, 4) \o <<" ">> \o Pad(hh, 2) \o <<":">> \o Pad(mi, 2) \o <<":">>
       \o Pad(ss, 2) \o <<" ", sign>> \o Pad(oh, 2) \o Pad(om, 2)

\* %b: the number of the month of that name, in any letter case; 0 if none
LowerWeekdayNames == {Lower(wd) : wd \in WeekdayNames}
LowerMonthNames == [m \in 1..12 |-> Lower(MonthNames[m])]
MonthNumber(name) ==
    IF \E m \in 1..12 : LowerMonthNames[m] = Lower(name)
    THEN CHOOSE m \in 1..12 : LowerMonthNames[m] = Lower(name)
    ELSE 0

\* strptime(pubdate_str, "%a, %d %b %Y %H:%M:%S %z") on the fixed-width
\* strings of the provider: TRUE iff it does not raise ValueError.  The
\* weekday name is matched, in any letter case, but not checked against the
\* date; an offset of 24 hours or more is refused.
StrptimeMatches(s) ==
    /\ Len(s) = 31
    /\ Lower(SubSeq(s, 1, 3)) \in LowerWeekdayNames
    /\ s[4] = "," /\ s[5] = " " /\ s[8] = " " /\ s[12] = " " /\ s[17] = " "
    /\ s[20] = ":" /\ s[23] = ":" /\ s[26] = " "
    /\ MonthNumber(SubSeq(s, 9, 11)) # 0
    /\ AllDigits(SubSeq(s, 6, 7)) /\ AllDigits(SubSeq(s, 13, 16))
    /\ AllDigits(SubSeq(s, 18, 19)) /\ AllDigits(SubSeq(s, 21, 22))
    /\ AllDigits(SubSeq(s, 24, 25)) /\ AllDigits(SubSeq(s, 28, 31))
    /\ s[27] \in {"+", "-"}
    /\ LET y == DigitsVal(SubSeq(s, 13, 16))
           m == MonthNumber(SubSeq(s, 9, 11))
           d == DigitsVal(SubSeq(s, 6, 7))
       IN  /\ y >= 1
           /\ d >= 1 /\ d <= DaysInMonth(y, m)
           /\ DigitsVal(SubSeq(s, 18, 19)) <= 23
           /\ DigitsVal(SubSeq(s, 21, 22)) <= 59
           /\ DigitsVal(SubSeq(s, 24, 25)) <= 59
           /\ DigitsVal(SubSeq(s, 28, 29)) <= 23
           /\ DigitsVal(SubSeq(s, 30, 31)) <= 59

\* The instant of the aware datetime strptime builds from a string it
\* matches, in seconds since 2000-01-01T00:00:00Z.
ParsedInstant(s) ==
    LET y   == DigitsVal(SubSeq(s, 13, 16))
        m   == MonthNumber(SubSeq(s, 9, 11))
        d   == DigitsVal(SubSeq(s, 6, 7))
        loc == DaysFromCivil(y, m, d) * 86400
                 + DigitsVal(SubSeq(s, 18, 19)) * 3600
                 + DigitsVal(SubSeq(s, 21, 22)) * 60
                 + DigitsVal(SubSeq(s, 24, 25))
        off == DigitsVal(SubSeq(s, 28, 29)) * 3600
                 + DigitsVal(SubSeq(s, 30, 31)) * 60
    IN  IF s[27] = "+" THEN loc - off ELSE loc + off

\* the instant of y-m-d hh:00 KST, as parse_pubdate counts instants
KstInstant(y, m, d, hh) == DaysFromCivil(y, m, d) * 86400 + (hh - 9) * 3600

\* datetime.weekday() of the civil date y-m-d: Monday is 0 (2000-01-01 was
\* a Saturday)
Weekday(y, m, d) == (DaysFromCivil(y, m, d) + 5) % 7

\* timedelta(days=n), in seconds
Days(n) == n * 86400

\* get_default_time_window, now being datetime.now(kst) as a civil reading
\* [y, m, d, hh, mi, ss]; w_start and w_end are its locals start_time and
\* end_time, and the result is the pair of them
get_default_time_window(now) ==
    LET today_10am == KstInstant(now.y, now.m, now.d, 10)
        w_end   == IF now.hh < 10 THEN today_10am ELSE today_10am + Days(1)
        w_start == IF now.hh < 10 THEN w_end - Days(1) ELSE today_10am
    IN  IF Weekday(now.y, now.m, now.d) = 0
        THEN <<w_end - Days(3), w_end>>
        ELSE <<w_start, w_end>>

\* parse_pubdate if a timestamp without UTC offset were read as UTC
parse_pubdate_naive(pubdate_str) ==
    IF StrptimeMatches(pubdate_str) THEN Some(ParsedInstant(pubdate_str))
    ELSE IF StrptimeMatches(pubdate_str \o <<" ", "+", "0", "0", "0", "0">>)
    THEN Some(ParsedInstant(pubdate_str \o <<" ", "+", "0", "0", "0", "0">>))
    ELSE NoneValue

\* parse_pubdate: the instant of the aware datetime it returns (the
\* conversions to UTC and to Asia/Seoul keep the instant, and aware datetimes
\* compare by instant), or NoneValue when strptime raises ValueError.
parse_pubdate(pubdate_str) ==
    IF ~StrptimeMatches(pubdate_str) THEN NoneValue
    ELSE Some(ParsedInstant(pubdate_str))

-----------------------------------------------------------------------------
\* C26: remove_duplicate_links applied to its own result returns that result:
\* the second call changes nothing.
C26_Idempotent ==
    [][(fn_op = "remove_duplicate_links" /\ fn_pc = "done" /\ fn_pc' = "done again")
          => fn_out' = fn_out]_vars

\* a second call on a result of two items, after the first call removed a
\* duplicate
C26_Witness ==
    /\ fn_op = "remove_duplicate_links" /\ fn_pc = "done again"
    /\ Len(fn_out) = 2
    /\ \E i, j \in 1..Len(fn_in) :
          /\ i < j
          /\ Truthy(Get(fn_in[i], "link", <<>>))
          /\ Get(fn_in[i], "link", <<>>) = Get(fn_in[j], "link", <<>>)

-----------------------------------------------------------------------------
(* utils/dedupe.py: sort_by_pubdate, clean_news_data *)

\* list.insert for a stable sort: x goes before the first element that must
\* follow it (key smaller when descending, key greater when ascending)
RECURSIVE InsertByPubDate(_, _, _)
InsertByPubDate(sorted, x, reverse) ==
    IF sorted = <<>> THEN <<x>>
    ELSE LET kx == Get(x, "pubDate", <<>>)
             kh == Get(Head(sorted), "pubDate", <<>>)
         IN  IF (reverse /\ StrLess(kh, kx)) \/ (~reverse /\ StrLess(kx, kh))
             THEN <<x>> \o sorted
             ELSE <<Head(sorted)>> \o InsertByPubDate(Tail(sorted), x, reverse)

\* sorted(valid_items, key=lambda x: x.get('pubDate', ''), reverse=reverse):
\* the key is the pubDate str, compared as str; the sort is stable
RECURSIVE SortedByPubDate(_, _)
SortedByPubDate(list, reverse) ==
    IF list = <<>> THEN <<>>
    ELSE InsertByPubDate(SortedByPubDate(SubSeq(list, 1, Len(list) - 1), reverse),
                         list[Len(list)], reverse)

HasPubDate(item) == Truthy(Get(item, "pubDate", <<>>))

\* sort_by_pubdate without line 60-61: the items without pubDate are lost
sort_by_pubdate_valid_only(news_items, reverse) ==
    IF news_items = <<>> THEN <<>>
    ELSE SortedByPubDate(SelectSeq(news_items, HasPubDate), reverse)

sort_by_pubdate(news_items, reverse) ==
    IF news_items = <<>> THEN <<>>
    ELSE LET valid_items   == SelectSeq(news_items, HasPubDate)
             invalid_items == SelectSeq(news_items, LAMBDA item : ~HasPubDate(item))
         IN  SortedByPubDate(valid_items, reverse) \o invalid_items

clean_news_data(news_items) ==
    IF news_items = <<>> THEN <<>>
    ELSE sort_by_pubdate(remove_duplicate_links(news_items), TRUE)

-----------------------------------------------------------------------------
(* Specification SpecSort: sort_by_pubdate and clean_news_data on every    *)
(* bounded list                                                            *)

Mon == <<"M", "o", "n">>
Fri == <<"F", "r", "i">>

\* Mon, 18 Dec 2023 01:30:00 +0900
PubMon18 == FormatPubDate(Mon, 18, 12, 2023, 1, 30, 0, "+", 9, 0)
\* Mon, 18 Dec 2023 00:30:00 +0800, the same instant written with another offset
PubMon18Offset8 == FormatPubDate(Mon, 18, 12, 2023, 0, 30, 0, "+", 8, 0)
\* Fri, 22 Dec 2023 09:00:00 +0900, four days later
PubFri22 == FormatPubDate(Fri, 22, 12, 2023, 9, 0, 0, "+", 9, 0)
\* Mon, 18 Dec 2023 01:30:00 without the UTC offset: strptime raises ValueError
PubNoOffset == SubSeq(PubMon18, 1, 25)

SortFields ==
    {[link |-> l, pubDate |-> p] :
        l \in {LinkA, LinkB},
        p \in {PubMon18, PubMon18Offset8, PubFri22, PubNoOffset, <<>>}}
    \cup {[link |-> l] : l \in {LinkA, LinkB}}

InitSort ==
    /\ JudgeIdle
    /\ PipeIdle
    /\ fn_pc = "ready"
    /\ fn_op = "none"
    /\ fn_in \in {WithIds(f) : f \in SeqsUpTo(SortFields, MaxSortItems)}
    /\ fn_out = <<>>

CallSortByPubdate ==
    /\ fn_pc = "ready"
    /\ fn_pc' = "done"
    /\ fn_op' = "sort_by_pubdate"
    /\ fn_out' = sort_by_pubdate(fn_in, TRUE)
    /\ UNCHANGED <<fn_in, judgeVars, pipeVars>>

CallCleanNewsData ==
    /\ fn_pc = "ready"
    /\ fn_pc' = "done"
    /\ fn_op' = "clean_news_data"
    /\ fn_out' = clean_news_data(fn_in)
    /\ UNCHANGED <<fn_in, judgeVars, pipeVars>>

NextSort == CallSortByPubdate \/ CallCleanNewsData

SpecSort == InitSort /\ [][NextSort]_vars

SortDone == fn_pc = "done" /\ fn_op = "sort_by_pubdate"

Parseable(item) == parse_pubdate(Get(item, "pubDate", <<>>)) # NoneValue

Instant(item) == parse_pubdate(Get(item, "pubDate", <<>>)).value

\* position of the input object i in the list out
PosOf(out, i) == CHOOSE k \in 1..Len(out) : out[k].id = i

\* out holds every object of in exactly once
IsPermutationOfInput(out, in) ==
    /\ Len(out) = Len(in)
    /\ \A i \in 1..Len(in) : \E k \in 1..Len(out) : out[k] = in[i]

\* C3: the output of the sort (alone, and as the last step of
\* clean_news_data) is non-increasing in publication instant among the
\* items with parseable timestamps, and items with equal instants keep
\* their input order.
C3_SortedByInstant ==
    (fn_pc = "done" /\ fn_op \in {"sort_by_pubdate", "clean_news_data"}) =>
        \A a, b \in 1..Len(fn_out) :
            (a < b /\ Parseable(fn_out[a]) /\ Parseable(fn_out[b])) =>
                /\ Instant(fn_out[a]) >= Instant(fn_out[b])
                /\ Instant(fn_out[a]) = Instant(fn_out[b])
                      => fn_out[a].id < fn_out[b].id

-----------------------------------------------------------------------------
(* str methods used by services/gpt_judger.py *)

Whitespace == {" ", "\n", "\t"}

RECURSIVE LStrip(_)
LStrip(s) == IF s # <<>> /\ Head(s) \in Whitespace THEN LStrip(Tail(s)) ELSE s

\* str.strip()
Strip(s) == Reverse(LStrip(Reverse(LStrip(s))))

\* str.startswith(prefix)
StartsWith(s, prefix) ==
    Len(prefix) <= Len(s) /\ SubSeq(s, 1, Len(prefix)) = prefix

\* sub in s
Contains(s, sub) ==
    \E i \in 1..(Len(s) - Len(sub) + 1) : SubSeq(s, i, i + Len(sub) - 1) = sub

\* s.replace(old, ''): every occurrence of old is removed, left to right
RECURSIVE Remove(_, _)
Remove(s, old) ==
    IF s = <<>> THEN <<>>
    ELSE IF StartsWith(s, old) THEN Remove(SubSeq(s, Len(old) + 1, Len(s)), old)
    ELSE <<Head(s)>> \o Remove(Tail(s), old)

\* s.split(sep) for a one-character separator
RECURSIVE Split(_, _)
Split(s, sep) ==
    IF \A i \in 1..Len(s) : s[i] # sep THEN <<s>>
    ELSE LET i == CHOOSE m \in 1..Len(s) :
                      s[m] = sep /\ \A x \in 1..(m - 1) : s[x] # sep
         IN  <<SubSeq(s, 1, i - 1)>> \o Split(SubSeq(s, i + 1, Len(s)), sep)

\* float(text), in hundredths, for the decimal literals [+-]digits[.digits]
\* and [+-].digits (the replies of the model carry at most two decimals);
\* NoneValue stands for ValueError
ParseFloat(text) ==
    LET signed == text # <<>> /\ Head(text) \in {"+", "-"}
        body   == IF signed THEN Tail(text) ELSE text
        parts  == Split(body, ".")
        int    == parts[1]
        frac   == IF Len(parts) = 2 THEN parts[2] ELSE <<>>
        frac2  == SubSeq(frac \o <<"0", "0">>, 1, 2)
        mag    == 100 * DigitsVal(int) + DigitsVal(frac2)
    IN  IF /\ Len(parts) <= 2
           /\ AllDigits(int) /\ AllDigits(frac)
           /\ Len(int) + Len(frac) >= 1
        THEN Some(IF signed /\ Head(text) = "-" THEN 0 - mag ELSE mag)
        ELSE NoneValue

-----------------------------------------------------------------------------
(* services/gpt_judger.py: GPTPrintJudger (scalar mode) *)

\* d[key] = v on a dict
SetKey(d, key, v) ==
    [x \in DOMAIN d \cup {key} |-> IF x = key THEN v ELSE d[x]]

\* A reply of the classifier collaborator to one request: the call raises
\* (transport failure), or returns a message whose content is None or text.
Raise == [kind |-> "raise"]

NullContent == [kind |-> "null"]

Content(text) == [kind |-> "content", content |-> text]

\* judge_single_news with the range check of line 92 dropped
PrintJudger_judge_single_news_unchecked(reply) ==
    IF reply.kind # "content" THEN NoneValue
    ELSE ParseFloat(Strip(reply.content))

\* GPTPrintJudger.judge_single_news: Optional[float]
PrintJudger_judge_single_news(reply) ==
    IF reply.kind = "raise" THEN NoneValue          \* except Exception
    ELSE IF reply.kind = "null" THEN NoneValue      \* None.strip(): AttributeError
    ELSE LET content == Strip(reply.content)
             score   == ParseFloat(content)
         IN  IF score = NoneValue THEN NoneValue    \* except ValueError
             ELSE IF 0 <= score.value /\ score.value <= 100 THEN score
             ELSE NoneValue

\* a batch loop that steps over the item after each batch
NextPosStepOver(m, n) ==
    IF m \in {"judge_multiple_news", "filter_and_dedupe_news"}
    THEN IF j_k + 1 < j_batch_size /\ j_i + j_k + 1 < n
         THEN <<j_i, j_k + 1>> ELSE <<j_i + j_batch_size + 1, 0>>
    ELSE <<j_i + 1, 0>>

\* the loop position after the current item
NextPos(m, n) ==
    IF m \in {"judge_multiple_news", "filter_and_dedupe_news"}
    THEN LET rest == n - j_i
             len  == IF j_batch_size < rest THEN j_batch_size ELSE rest
         IN  IF j_k + 1 < len THEN <<j_i, j_k + 1>> ELSE <<j_i + j_batch_size, 0>>
    ELSE <<j_i + 1, 0>>

\* the item the loop is at
CurrentId == j_news_items[j_i + j_k + 1]

ScalarMethods == {"judge_multiple_news", "judge_news_sequential"}

\* an invalid reply counted as score 0.0
ScalarRetainedDefaultZero(print_score, t) ==
    (IF print_score = NoneValue THEN 0 ELSE print_score.value) >= t

\* a threshold read as an upper limit
ScalarRetainedUpTo(print_score, t) ==
    print_score # NoneValue /\ print_score.value <= t

\* lines 135-139 / 176-180: an item enters judged_items iff its score is not
\* None and reaches the threshold
ScalarRetained(print_score, t) ==
    print_score # NoneValue /\ print_score.value >= t

-----------------------------------------------------------------------------
(* services/gpt_judger.py: GPTNewsFilter (structured mode) *)

\* the labels of the reply format, lines 241-245, syllable by syllable
LabelPrint   == <<"ji", "myeon", "ga", "neung", "seong", ":">>
LabelUtility == <<"sil", "yong", "seong", ":">>
LabelTotal   == <<"jong", "hap", "jeom", "su", ":">>
LabelInclude == <<"po", "ham", "yeo", "bu", ":">>
LabelReason  == <<"i", "yu", ":">>

\* the affirmative tokens of line 334
TokenYes     == <<"ye">>
TokenInclude == <<"po", "ham">>

\* LineScore without the range check of lines 312, 320, 328
LineScoreUnchecked(line, label) == ParseFloat(Strip(Remove(line, label)))

\* the score a labelled line sets, or NoneValue when it sets none
LineScore(line, label) ==
    LET score == ParseFloat(Strip(Remove(line, label)))
    IN  IF score # NoneValue /\ 0 <= score.value /\ score.value <= 100
        THEN score ELSE NoneValue

\* the body of the loop of lines 306-337 for one line
ParseLine(result, raw_line) ==
    LET line == Strip(raw_line)
    IN  IF StartsWith(line, LabelPrint)
        THEN (IF LineScore(line, LabelPrint) # NoneValue
              THEN [result EXCEPT !.print_score = LineScore(line, LabelPrint).value]
              ELSE result)
        ELSE IF StartsWith(line, LabelUtility)
        THEN (IF LineScore(line, LabelUtility) # NoneValue
              THEN [result EXCEPT !.utility_score = LineScore(line, LabelUtility).value]
              ELSE result)
        ELSE IF StartsWith(line, LabelTotal)
        THEN (IF LineScore(line, LabelTotal) # NoneValue
              THEN [result EXCEPT !.total_score = LineScore(line, LabelTotal).value]
              ELSE result)
        ELSE IF StartsWith(line, LabelInclude)
        THEN LET include_text == Strip(Remove(line, LabelInclude))
             IN  [result EXCEPT !.include = Contains(include_text, TokenYes)
                                            \/ Contains(include_text, TokenInclude)]
        ELSE IF StartsWith(line, LabelReason)
        THEN [result EXCEPT !.reason = Strip(Remove(line, LabelReason))]
        ELSE result

RECURSIVE ParseLines(_, _)
ParseLines(result, lines) ==
    IF lines = <<>> THEN result
    ELSE ParseLines(ParseLine(result, Head(lines)), Tail(lines))

\* GPTNewsFilter._parse_integrated_response
parse_integrated_response(content) ==
    ParseLines([print_score |-> 0, utility_score |-> 0, total_score |-> 0,
                include |-> FALSE, reason |-> <<>>, raw_response |-> content],
               Split(content, "\n"))

\* GPTNewsFilter.judge_single_news: Optional[Dict]
NewsFilter_judge_single_news(reply) ==
    IF reply.kind = "raise" THEN NoneValue          \* except Exception
    ELSE IF reply.kind = "null" THEN NoneValue      \* None.strip(): AttributeError
    ELSE Some(parse_integrated_response(Strip(reply.content)))

\* the characters of the model that match neither \w nor \s
Punctuation == {"!", "+", ",", "-", ".", "/", ":", "?"}

\* re.sub(r'\s+', ' ', s)
RECURSIVE CollapseSpaces(_)
CollapseSpaces(s) ==
    IF s = <<>> THEN <<>>
    ELSE IF Head(s) \in Whitespace
    THEN <<" ">> \o CollapseSpaces(LStrip(s))
    ELSE <<Head(s)>> \o CollapseSpaces(Tail(s))

\* GPTNewsFilter._normalize_title
normalize_title(title) ==
    LET kept       == SelectSeq(title, LAMBDA c : c \notin Punctuation)
        normalized == Strip(CollapseSpaces(kept))
    IN  [n \in 1..Len(normalized) |-> LowerChar(normalized[n])]

Chosun   == <<"jo", "seon", "il", "bo">>
Hankyung == <<"han", "guk", "gyeong", "je">>

\* the table of lines 481-485: publisher name -> trust rank
source_priority ==
    (Chosun :> 10) @@ (<<"jung", "ang", "il", "bo">> :> 9)
    @@ (<<"dong", "a", "il", "bo">> :> 8) @@ (<<"jo", "seon", "bi", "jeu">> :> 7)
    @@ (<<"mae", "geo", "jin", "han", "gyeong">> :> 6) @@ (Hankyung :> 5)
    @@ (<<"mae", "il", "gyeong", "je">> :> 4) @@ (<<"yeon", "hap", "nyu", "seu">> :> 3)
    @@ (<<"pa", "i", "naen", "syeol", "nyu", "seu">> :> 2)
    @@ (<<"meo", "ni", "tu", "de", "i">> :> 1)

(* Python float: IEEE-754 binary64, round to nearest, ties to even.  A     *)
(* double is [neg, m, e]: m its 53 mantissa bits, most significant bit     *)
(* first and set, e the exponent of the last bit, so that its value is     *)
(* m * 2^e; zero has the empty mantissa.  The values of this module lie    *)
(* far from the subnormal and the overflow range.                          *)

MantissaBits == 53
\* big naturals are added and multiplied in limbs of LimbBits bits
LimbBits     == 14
LimbBase     == 2^LimbBits
\* bits of the binary expansion of a quotient computed before rounding
FractionBits == 64

Zeros(count) == [i \in 1..count |-> 0]

RECURSIVE BitsToNat(_)
BitsToNat(bits) ==
    IF bits = <<>> THEN 0
    ELSE 2 * BitsToNat(SubSeq(bits, 1, Len(bits) - 1)) + bits[Len(bits)]

NatToBits(n, width) == [i \in 1..width |-> (n \div 2^(width - i)) % 2]

StripZeros(bits) ==
    IF \A i \in 1..Len(bits) : bits[i] = 0 THEN <<>>
    ELSE SubSeq(bits,
                CHOOSE i \in 1..Len(bits) :
                    bits[i] = 1 /\ \A k \in 1..(i - 1) : bits[k] = 0,
                Len(bits))

LimbCount(bits) == (Len(bits) + LimbBits - 1) \div LimbBits

\* limb 1 is the least significant
ToLimbs(bits, count) ==
    LET padded == Zeros(count * LimbBits - Len(bits)) \o bits
    IN  [k \in 1..count |->
            BitsToNat(SubSeq(padded, (count - k) * LimbBits + 1,
                             (count - k + 1) * LimbBits))]

FromLimbs(limbs) ==
    [i \in 1..(Len(limbs) * LimbBits) |->
        (limbs[Len(limbs) - ((i - 1) \div LimbBits)]
            \div 2^(LimbBits - 1 - ((i - 1) % LimbBits))) % 2]

RECURSIVE AddLimbs(_, _, _, _)
AddLimbs(a, b, k, carry) ==
    IF k > Len(a) THEN <<carry>>
    ELSE <<(a[k] + b[k] + carry) % LimbBase>>
         \o AddLimbs(a, b, k + 1, (a[k] + b[k] + carry) \div LimbBase)

\* the exact sum of two big naturals
BigAdd(x, y) ==
    LET count == IF LimbCount(x) > LimbCount(y) THEN LimbCount(x) ELSE LimbCount(y)
    IN  StripZeros(FromLimbs(AddLimbs(ToLimbs(x, count), ToLimbs(y, count), 1, 0)))

RECURSIVE ColumnSum(_, _, _, _)
ColumnSum(a, b, k, i) ==
    IF i > Len(a) THEN 0
    ELSE (IF k + 1 - i \in 1..Len(b) THEN a[i] * b[k + 1 - i] ELSE 0)
         + ColumnSum(a, b, k, i + 1)

RECURSIVE MulLimbs(_, _, _, _)
MulLimbs(a, b, k, carry) ==
    IF k > Len(a) + Len(b) - 1 THEN <<carry>>
    ELSE <<(ColumnSum(a, b, k, 1) + carry) % LimbBase>>
         \o MulLimbs(a, b, k + 1, (ColumnSum(a, b, k, 1) + carry) \div LimbBase)

\* the exact product of two big naturals of at most 56 bits
BigMul(x, y) ==
    StripZeros(FromLimbs(MulLimbs(ToLimbs(x, LimbCount(x)),
                                  ToLimbs(y, LimbCount(y)), 1, 0)))

FloatZero == [neg |-> FALSE, m |-> <<>>, e |-> 0]

\* the double nearest to bits * 2^e, ties to the even mantissa
RoundToDouble(bits, e) ==
    LET x     == StripZeros(bits)
        extra == Len(x) - MantissaBits
    IN  IF x = <<>> THEN FloatZero
        ELSE IF extra <= 0
        THEN [neg |-> FALSE, m |-> x \o Zeros(0 - extra), e |-> e + extra]
        ELSE LET kept   == SubSeq(x, 1, MantissaBits)
                 guard  == x[MantissaBits + 1]
                 sticky == \E i \in (MantissaBits + 2)..Len(x) : x[i] = 1
                 up     == guard = 1 /\ (sticky \/ kept[MantissaBits] = 1)
                 raised == BigAdd(kept, <<1>>)
             IN  IF ~up THEN [neg |-> FALSE, m |-> kept, e |-> e + extra]
                 ELSE IF Len(raised) > MantissaBits
                 THEN [neg |-> FALSE, m |-> SubSeq(raised, 1, MantissaBits),
                       e |-> e + extra + 1]
                 ELSE [neg |-> FALSE, m |-> raised, e |-> e + extra]

\* the first count bits of the binary expansion of r / d (r < d), followed
\* by one bit that tells whether anything is left
RECURSIVE QuotientBits(_, _, _)
QuotientBits(r, d, count) ==
    IF count = 0 THEN (IF r = 0 THEN <<0>> ELSE <<1>>)
    ELSE <<(2 * r) \div d>> \o QuotientBits((2 * r) % d, d, count - 1)

\* the double of the decimal literal or quotient n / d (n, d naturals):
\* float("0.9"), the constant 0.6, rank / 10.0
FloatOfRatio(n, d) ==
    RoundToDouble(NatToBits(n \div d, LimbBits) \o QuotientBits(n % d, d, FractionBits),
                  0 - (FractionBits + 1))

FloatMinusOne == [neg |-> TRUE, m |-> <<1>> \o Zeros(MantissaBits - 1),
                  e |-> 1 - MantissaBits]

\* a * b of two non-negative doubles
FloatMul(a, b) ==
    IF a.m = <<>> \/ b.m = <<>> THEN FloatZero
    ELSE RoundToDouble(BigMul(a.m, b.m), a.e + b.e)

\* a + b of two non-negative doubles
FloatAdd(a, b) ==
    IF a.m = <<>> THEN b
    ELSE IF b.m = <<>> THEN a
    ELSE LET e == IF a.e < b.e THEN a.e ELSE b.e
         IN  RoundToDouble(BigAdd(a.m \o Zeros(a.e - e), b.m \o Zeros(b.e - e)), e)

\* x > y of two mantissas, from bit i on
RECURSIVE BitsGreater(_, _, _)
BitsGreater(x, y, i) ==
    IF i > Len(x) THEN FALSE
    ELSE IF x[i] # y[i] THEN x[i] > y[i]
    ELSE BitsGreater(x, y, i + 1)

\* |a| > |b|
MagnitudeGreater(a, b) ==
    IF a.m = <<>> THEN FALSE
    ELSE IF b.m = <<>> THEN TRUE
    ELSE IF a.e # b.e THEN a.e > b.e
    ELSE a.m # b.m /\ BitsGreater(a.m, b.m, 1)

\* a > b
FloatGreater(a, b) ==
    IF a.neg # b.neg THEN b.neg
    ELSE IF a.neg THEN MagnitudeGreater(b, a)
    ELSE MagnitudeGreater(a, b)

\* (print_score * 0.6) + (total_score * 0.3) + (source_score * 0.1) of line
\* 498 with source_score = rank / 10.0 of line 497, as Python computes it;
\* the two scores are given in hundredths
CombinedFloat(print_score, total_score, rank) ==
    FloatAdd(FloatAdd(FloatMul(FloatOfRatio(print_score, 100), FloatOfRatio(6, 10)),
                      FloatMul(FloatOfRatio(total_score, 100), FloatOfRatio(3, 10))),
             FloatMul(FloatOfRatio(rank, 10), FloatOfRatio(1, 10)))

\* the scores and ranks the items of the model carry; their combined_score
\* is computed once (@@ makes the function an explicit table)
ModelScores == {0, 50, 70, 80, 90, 100}
ModelRanks  == {0, 5, 10}
CombinedScoreTable ==
    [key \in ModelScores \X ModelScores \X ModelRanks |->
        CombinedFloat(key[1], key[2], key[3])] @@ <<>>

\* combined_score of lines 491-498
CombinedScore(item) ==
    LET judgment    == Get(item, "judgment_result", <<>>)
        print_score == Get(judgment, "print_score", 0)
        total_score == Get(judgment, "total_score", 0)
        source_name == Get(item, "source_name", <<>>)
        rank        == Get(source_priority, source_name, 0)
    IN  IF <<print_score, total_score, rank>> \in DOMAIN CombinedScoreTable
        THEN CombinedScoreTable[<<print_score, total_score, rank>>]
        ELSE CombinedFloat(print_score, total_score, rank)

\* the loop of lines 490-502: best_item after the group
RECURSIVE SelectBestScan(_, _, _)
SelectBestScan(group, best_item, best_score) ==
    IF group = <<>> THEN best_item
    ELSE LET combined_score == CombinedScore(Head(group))
         IN  IF FloatGreater(combined_score, best_score)
             THEN SelectBestScan(Tail(group), Head(group), combined_score)
             ELSE SelectBestScan(Tail(group), best_item, best_score)

\* GPTNewsFilter._select_best_from_group
select_best_from_group(group) ==
    IF group = <<>> THEN <<>> ELSE SelectBestScan(group, group[1], FloatMinusOne)

\* the titles of the model: two that differ in punctuation, spacing and case
\* only, a third one, and a blank one
TitleSamsung        == <<"sam", "seong", ",", " ", "A", "I">>
TitleSamsungVariant == <<"sam", "seong", " ", " ", "a", "i", "!">>
TitleBank           == <<"B", "a", "n", "k">>
TitleBlank          == <<" ">>
\* two titles of punctuation only: not blank, yet their normalized title is ''
TitlePunct          == <<"!", "?">>
TitlePunctOther     == <<"?">>

ModelTitles ==
    {TitleSamsung, TitleSamsungVariant, TitleBank, TitleBlank, TitlePunct,
     TitlePunctOther, <<>>}

\* _normalize_title(title.strip()) of each title of the model, computed once
NormalizedTitle ==
    [title \in ModelTitles |-> normalize_title(Strip(title))] @@ <<>>

\* the key under which lines 418-428 file an item
TitleKey(item) == NormalizedTitle[Get(item, "title", <<>>)]

HasTitle(item) == Truthy(Strip(Get(item, "title", <<>>)))

\* the members of a set of positions, ascending
RECURSIVE Ascending(_)
Ascending(S) ==
    IF S = {} THEN <<>>
    ELSE <<CHOOSE m \in S : \A x \in S : m <= x>>
            \o Ascending(S \ {CHOOSE m \in S : \A x \in S : m <= x})

\* lines 434-440: what one group contributes
GroupChoice(group) ==
    IF Len(group) = 1 THEN group[1] ELSE select_best_from_group(group)

\* title_groups[key[n]]: the items filed under the key of item n, in
\* arrival order
GroupOf(titled, key, n) ==
    LET members == Ascending({m \in 1..Len(titled) : key[m] = key[n]})
    IN  [x \in 1..Len(members) |-> titled[members[x]]]

\* lines 431-442 over the dict title_groups, whose keys iterate in insertion
\* order: firsts are the items that opened a group
CollapseGroups(titled, key, firsts) ==
    [g \in 1..Len(firsts) |-> GroupChoice(GroupOf(titled, key, firsts[g]))]

\* DedupeTitled without the grouping: every titled item is kept
DedupeTitledNoCollapse(titled, key) == titled

\* lines 414-442 for the items that have a title
DedupeTitled(titled, key) ==
    CollapseGroups(titled, key,
        Ascending({n \in 1..Len(titled) : \A m \in 1..(n - 1) : key[m] # key[n]}))

\* GPTNewsFilter._dedupe_with_print_priority
dedupe_with_print_priority(list) ==
    IF list = <<>> THEN <<>>
    ELSE DedupeTitled(SelectSeq(list, HasTitle),
                      [n \in 1..Len(SelectSeq(list, HasTitle)) |->
                          TitleKey(SelectSeq(list, HasTitle)[n])])

StructuredMethods == {"filter_and_dedupe_news", "filter_news_sequential"}

\* the include decision ignored
StructuredRetainedScoreOnly(judgment_result, t) == judgment_result.total_score >= t

\* line 390 / 553
StructuredRetained(judgment_result, t) ==
    judgment_result.total_score >= t /\ judgment_result.include

-----------------------------------------------------------------------------
(* filters.py *)

\* s.find(sub) + 1: the position of the first occurrence of sub, 0 if none
Find(s, sub) ==
    LET found == {n \in 1..(Len(s) - Len(sub) + 1) : SubSeq(s, n, n + Len(sub) - 1) = sub}
    IN  IF found = {} THEN 0 ELSE CHOOSE n \in found : \A m \in found : n <= m

\* s.split(sep, 1)
SplitOnce(s, sep) ==
    IF Find(s, sep) = 0 THEN <<s>>
    ELSE <<SubSeq(s, 1, Find(s, sep) - 1),
           SubSeq(s, Find(s, sep) + Len(sep), Len(s))>>

SchemePrefix    == <<"h", "t", "t", "p">>
SchemeSeparator == <<":", "/", "/">>
WwwPrefix       == <<"w", "w", "w", ".">>

\* extract_domain without the removal of 'www.'
extract_domain_keeps_www(url) ==
    IF StartsWith(url, SchemePrefix) /\ Len(SplitOnce(url, SchemeSeparator)) < 2
    THEN <<>>
    ELSE SplitOnce(IF StartsWith(url, SchemePrefix)
                   THEN SplitOnce(url, SchemeSeparator)[2] ELSE url, <<"/">>)[1]

\* extract_domain
extract_domain(url) ==
    IF StartsWith(url, SchemePrefix) /\ Len(SplitOnce(url, SchemeSeparator)) < 2
    THEN <<>>                                       \* except IndexError
    ELSE LET rest   == IF StartsWith(url, SchemePrefix)
                       THEN SplitOnce(url, SchemeSeparator)[2] ELSE url
             domain == SplitOnce(rest, <<"/">>)[1]
         IN  IF StartsWith(domain, WwwPrefix)
             THEN SubSeq(domain, 5, Len(domain)) ELSE domain

\* the exception the body of extract_domain raises on url (Some(text), or
\* NoneValue for None): None has no startswith, and [1] of a split that
\* found no '://' is out of range
ExtractDomainException(url) ==
    IF url = NoneValue THEN "AttributeError"
    ELSE IF StartsWith(url.value, SchemePrefix)
            /\ Len(SplitOnce(url.value, SchemeSeparator)) < 2
    THEN "IndexError"
    ELSE "none"

\* an except clause that names IndexError only
ExtractDomainCaughtIndexError == {"IndexError"}

\* except (IndexError, AttributeError), line 124
ExtractDomainCaught == {"IndexError", "AttributeError"}

\* a call of extract_domain: the value returned, or the exception that
\* leaves the function
ExtractDomainCall(url) ==
    IF ExtractDomainException(url) = "none" THEN [value |-> extract_domain(url.value)]
    ELSE IF ExtractDomainException(url) \in ExtractDomainCaught THEN [value |-> <<>>]
    ELSE [raised |-> ExtractDomainException(url)]

DomainChosun   == <<"c", "h", "o", "s", "u", "n", ".", "c", "o", "m">>
DomainHankyung == <<"h", "a", "n", "k", "y", "u", "n", "g", ".", "c", "o", "m">>
DomainOther    == <<"n", "e", "w", "s", ".", "k", "r">>

\* constants.ALLOWED_SOURCES: publisher name -> domain, in insertion order
ALLOWED_SOURCES == <<<<Chosun, DomainChosun>>, <<Hankyung, DomainHankyung>>>>

\* constants.NEGATIVE_KEYWORDS
NEGATIVE_KEYWORDS == <<<<"B", "T", "S">>>>

\* the test of lines 27-33 if the allow-listed domain were looked for in the
\* whole link
FromAllowedLink(item) ==
    /\ Truthy(Get(item, "link", <<>>))
    /\ \E n \in 1..Len(ALLOWED_SOURCES) :
          Contains(Get(item, "link", <<>>), ALLOWED_SOURCES[n][2])

\* the test of lines 27-33 on one item
FromAllowedSource(item) ==
    /\ Truthy(Get(item, "link", <<>>))
    /\ \E domain \in {extract_domain(Get(item, "link", <<>>))} :
          /\ Truthy(domain)
          /\ \E n \in 1..Len(ALLOWED_SOURCES) : Contains(domain, ALLOWED_SOURCES[n][2])

\* filter_by_allowed_sources
filter_by_allowed_sources(news_items) == SelectSeq(news_items, FromAllowedSource)

\* is_within_time_window if the end of the window were excluded
is_within_time_window_open(pubdate_str, start, end) ==
    \E parsed_time \in {parse_pubdate(pubdate_str)} :
        /\ parsed_time # NoneValue
        /\ start <= parsed_time.value
        /\ parsed_time.value < end

\* is_within_time_window (utils/time_window.py)
is_within_time_window(pubdate_str, start, end) ==
    \E parsed_time \in {parse_pubdate(pubdate_str)} :
        /\ parsed_time # NoneValue
        /\ start <= parsed_time.value
        /\ parsed_time.value <= end

\* filter_by_time_window
filter_by_time_window(news_items, start, end) ==
    SelectSeq(news_items,
              LAMBDA item : /\ Truthy(Get(item, "pubDate", <<>>))
                            /\ is_within_time_window(Get(item, "pubDate", <<>>), start, end))

\* has_negative_keyword if title, description and keyword kept their case
HasNegativeKeywordCaseSensitive(item) ==
    \E n \in 1..Len(NEGATIVE_KEYWORDS) :
        \/ Contains(Get(item, "title", <<>>), NEGATIVE_KEYWORDS[n])
        \/ Contains(Get(item, "description", <<>>), NEGATIVE_KEYWORDS[n])

\* lines 85-93: has_negative_keyword
HasNegativeKeyword(item) ==
    \E n \in 1..Len(NEGATIVE_KEYWORDS) :
        \/ Contains(Lower(Get(item, "title", <<>>)), Lower(NEGATIVE_KEYWORDS[n]))
        \/ Contains(Lower(Get(item, "description", <<>>)), Lower(NEGATIVE_KEYWORDS[n]))

\* filter_by_negative_keywords
filter_by_negative_keywords(news_items) ==
    SelectSeq(news_items, LAMBDA item : ~HasNegativeKeyword(item))

\* apply_all_filters if the keyword filter were given the survivors of the
\* source filter
apply_all_filters_unchained(news_items, start, end) ==
    IF news_items = <<>> THEN <<>>
    ELSE filter_by_negative_keywords(filter_by_allowed_sources(news_items))

\* apply_all_filters
apply_all_filters(news_items, start, end) ==
    IF news_items = <<>> THEN <<>>
    ELSE filter_by_negative_keywords(
             filter_by_time_window(filter_by_allowed_sources(news_items), start, end))

\* get_source_name if the last matching entry of the table won
get_source_name_last_match(link) ==
    IF \E n \in 1..Len(ALLOWED_SOURCES) :
           Contains(extract_domain(link), ALLOWED_SOURCES[n][2])
    THEN ALLOWED_SOURCES[CHOOSE n \in 1..Len(ALLOWED_SOURCES) :
             /\ Contains(extract_domain(link), ALLOWED_SOURCES[n][2])
             /\ \A m \in (n + 1)..Len(ALLOWED_SOURCES) :
                   ~Contains(extract_domain(link), ALLOWED_SOURCES[m][2])][1]
    ELSE extract_domain(link)

\* get_source_name
get_source_name(link) ==
    IF \E n \in 1..Len(ALLOWED_SOURCES) :
           Contains(extract_domain(link), ALLOWED_SOURCES[n][2])
    THEN ALLOWED_SOURCES[CHOOSE n \in 1..Len(ALLOWED_SOURCES) :
             /\ Contains(extract_domain(link), ALLOWED_SOURCES[n][2])
             /\ \A m \in 1..(n - 1) :
                   ~Contains(extract_domain(link), ALLOWED_SOURCES[m][2])][1]
    ELSE extract_domain(link)

\* the body of the loop of add_source_info if it also replaced the link by
\* the domain
SourceInfoAddedLinkCut(item) ==
    SetKey(SetKey(SetKey(item, "source_name", get_source_name(Get(item, "link", <<>>))),
                  "domain", extract_domain(Get(item, "link", <<>>))),
           "link", extract_domain(Get(item, "link", <<>>)))

\* the body of the loop of add_source_info, lines 188-190, on one item
SourceInfoAdded(item) ==
    SetKey(SetKey(item, "source_name", get_source_name(Get(item, "link", <<>>))),
           "domain", extract_domain(Get(item, "link", <<>>)))

-----------------------------------------------------------------------------
(* The replies of the classifier collaborator *)

\* threshold values of the sidebar slider (0.0 .. 1.0 in steps of 0.1)
Thresholds == {0, 70}

\* batch_size: the default and value of app.py (5), and one that splits the list
BatchSizes == {1, 5}

Text07      == <<"0", ".", "7">>
Text05Padded == <<" ", "0", ".", "5", "\n">>
Text0       == <<"0">>
Text15      == <<"1", ".", "5">>
TextMinus01 == <<"-", "0", ".", "1">>
TextHigh    == <<"h", "i", "g", "h">>

ScalarReplies ==
    {Raise, Content(Text07), Content(Text05Padded), Content(Text0),
     Content(Text15), Content(TextMinus01), Content(TextHigh)}

\* a reply in the format of lines 241-245
FormatReply(print_text, utility_text, total_text, include_text) ==
    LabelPrint \o <<" ">> \o print_text \o <<"\n">>
    \o LabelUtility \o <<" ">> \o utility_text \o <<"\n">>
    \o LabelTotal \o <<" ">> \o total_text \o <<"\n">>
    \o LabelInclude \o <<" ">> \o include_text \o <<"\n">>
    \o LabelReason \o <<" ">> \o <<"o", "k">>

Text09 == <<"0", ".", "9">>
Text08 == <<"0", ".", "8">>
Text05 == <<"0", ".", "5">>
TextNo == <<"a", "ni", "o">>

ReplyGood     == Content(FormatReply(Text09, Text08, Text08, TokenYes))
ReplyAtLimit  == Content(FormatReply(Text05, Text08, Text07, TokenYes))
ReplyExcluded == Content(FormatReply(Text09, Text09, Text09, TextNo))
ReplyLow      == Content(FormatReply(Text09, Text05, Text05, TokenYes))
ReplyBadPrint == Content(FormatReply(TextHigh, Text08, Text08, TokenYes))
ReplyGarbage  == Content(TextHigh)

StructuredReplies ==
    {Raise, ReplyGood, ReplyAtLimit, ReplyExcluded, ReplyLow, ReplyBadPrint,
     ReplyGarbage}

\* judge_single_news of either class on each reply of the model, computed
\* once (the reply determines the result)
ScalarJudgment == [reply \in ScalarReplies |-> PrintJudger_judge_single_news(reply)]

StructuredJudgment ==
    [reply \in StructuredReplies |-> NewsFilter_judge_single_news(reply)]

-----------------------------------------------------------------------------
(* The classifier passes, one step per item *)

\* a list of identities as the list of its objects, and back
Deref(heap, ids) == [n \in 1..Len(ids) |-> heap[ids[n]]]

Ids(list) == [n \in 1..Len(list) |-> list[n].id]

\* a failed call ends the pass, as an exception escaping the loop would
PassFinishedOrFailed(result, pos, n) == result = NoneValue \/ pos[1] >= n

\* the for loops of lines 125-128, 166, 373-376 and 539 are over: an item
\* whose call failed does not end them
PassFinished(result, pos, n) == pos[1] >= n

\* entry of a pass: lines 119-122, 161-164, 366-370, 534-537
StartPass(m, list, t, bs) ==
    /\ method' = m
    /\ j_news_items' = list
    /\ j_threshold' = t
    /\ j_batch_size' = bs
    /\ judged_items' = <<>>
    /\ requests' = <<>>
    /\ j_i' = 0
    /\ j_k' = 0
    /\ returned' = <<>>
    /\ j_pc' = IF list = <<>> THEN "done" ELSE "loop"

\* lines 128-145 and 166-187: one item of a scalar pass, and the return of
\* line 147 / 189 after the last one
ScalarStep(reply) ==
    \E print_score \in {ScalarJudgment[reply]} :
    LET id     == CurrentId
        pos    == NextPos(method, Len(j_news_items))
        judged == IF ScalarRetained(print_score, j_threshold)
                  THEN Append(judged_items, id) ELSE judged_items
    IN  /\ requests' = Append(requests, <<id, reply>>)
        /\ items' = IF print_score # NoneValue
                    THEN [items EXCEPT ![id] = SetKey(@, "print_score", print_score.value)]
                    ELSE items
        /\ judged_items' = judged
        /\ j_i' = pos[1]
        /\ j_k' = pos[2]
        /\ IF PassFinished(print_score, pos, Len(j_news_items))
           THEN j_pc' = "done" /\ returned' = judged
           ELSE UNCHANGED <<j_pc, returned>>
        /\ UNCHANGED <<method, j_news_items, j_threshold, j_batch_size>>

\* lines 376-394 and 539-561: one item of a structured pass, and after the
\* last one the near-duplicate collapse and the return of lines 397-399 /
\* 564-566
StructuredStep(reply) ==
    \E judgment_result \in {StructuredJudgment[reply]} :
    LET id     == CurrentId
        pos    == NextPos(method, Len(j_news_items))
        heap   == IF judgment_result # NoneValue
                  THEN [items EXCEPT ![id] =
                           SetKey(@, "judgment_result", judgment_result.value)]
                  ELSE items
        judged == IF judgment_result # NoneValue
                     /\ StructuredRetained(judgment_result.value, j_threshold)
                  THEN Append(judged_items, id) ELSE judged_items
    IN  /\ requests' = Append(requests, <<id, reply>>)
        /\ items' = heap
        /\ judged_items' = judged
        /\ j_i' = pos[1]
        /\ j_k' = pos[2]
        /\ IF PassFinished(judgment_result, pos, Len(j_news_items))
           THEN /\ j_pc' = "done"
                /\ \E list \in {Deref(items', judged_items')} :
                      returned' = Ids(dedupe_with_print_priority(list))
           ELSE UNCHANGED <<j_pc, returned>>
        /\ UNCHANGED <<method, j_news_items, j_threshold, j_batch_size>>

-----------------------------------------------------------------------------
(* Specification SpecJudge: every method of gpt_judger.py that runs a pass, *)
(* on every bounded list, against every reply of the classifier            *)

\* enriched items as add_source_info leaves them; the third one carries the
\* print_score an earlier scalar pass gave it
JudgeFields ==
    {[title |-> TitleSamsung, description |-> <<"d">>,
      domain |-> DomainChosun, source_name |-> Chosun],
     [title |-> TitleSamsungVariant, description |-> <<"d">>,
      domain |-> DomainHankyung, source_name |-> Hankyung],
     [title |-> TitleBank, description |-> <<"d">>,
      domain |-> DomainOther, source_name |-> DomainOther, print_score |-> 90],
     [title |-> TitleBlank, description |-> <<>>,
      domain |-> DomainHankyung, source_name |-> Hankyung]}

\* no pure function is under study
FnIdle ==
    /\ fn_pc = "idle"
    /\ fn_op = "none"
    /\ fn_in = <<>>
    /\ fn_out = <<>>

InitJudge ==
    /\ FnIdle
    /\ PipeIdle
    /\ items \in {WithIds(f) : f \in SeqsUpTo(JudgeFields, MaxJudgeItems)}
    /\ j_news_items = [n \in 1..Len(items) |-> n]
    /\ j_pc = "idle"
    /\ method = "none"
    /\ j_threshold = 0
    /\ j_batch_size = 0
    /\ j_i = 0
    /\ j_k = 0
    /\ judged_items = <<>>
    /\ returned = <<>>
    /\ requests = <<>>

\* judge_multiple_news(news_items, threshold, batch_size)
CallJudgeMultipleNews ==
    /\ j_pc = "idle"
    /\ \E t \in Thresholds, bs \in BatchSizes :
          StartPass("judge_multiple_news", j_news_items, t, bs)
    /\ UNCHANGED <<items, fnVars, pipeVars>>

\* judge_news_sequential(news_items, threshold)
CallJudgeNewsSequential ==
    /\ j_pc = "idle"
    /\ \E t \in Thresholds : StartPass("judge_news_sequential", j_news_items, t, 0)
    /\ UNCHANGED <<items, fnVars, pipeVars>>

\* filter_and_dedupe_news(news_items, threshold, batch_size), also reached
\* through filter_multiple_news
CallFilterAndDedupeNews ==
    /\ j_pc = "idle"
    /\ \E t \in Thresholds, bs \in BatchSizes :
          StartPass("filter_and_dedupe_news", j_news_items, t, bs)
    /\ UNCHANGED <<items, fnVars, pipeVars>>

\* filter_news_sequential(news_items, threshold)
CallFilterNewsSequential ==
    /\ j_pc = "idle"
    /\ \E t \in Thresholds : StartPass("filter_news_sequential", j_news_items, t, 0)
    /\ UNCHANGED <<items, fnVars, pipeVars>>

\* one item of judge_multiple_news / judge_news_sequential
JudgeItem ==
    /\ j_pc = "loop"
    /\ method \in ScalarMethods
    /\ \E reply \in ScalarReplies : ScalarStep(reply)
    /\ UNCHANGED <<fnVars, pipeVars>>

\* one item of filter_and_dedupe_news / filter_news_sequential
FilterItem ==
    /\ j_pc = "loop"
    /\ method \in StructuredMethods
    /\ \E reply \in StructuredReplies : StructuredStep(reply)
    /\ UNCHANGED <<fnVars, pipeVars>>

NextJudge ==
    \/ CallJudgeMultipleNews
    \/ CallJudgeNewsSequential
    \/ CallFilterAndDedupeNews
    \/ CallFilterNewsSequential
    \/ JudgeItem
    \/ FilterItem

SpecJudge == InitJudge /\ [][NextJudge]_vars

\* x occurs in the list
InList(list, x) == \E n \in 1..Len(list) : list[n] = x

\* the judgment of the item's own reply, by the method under way
OwnResultRetains(reply) ==
    IF method \in ScalarMethods
    THEN ScalarRetained(ScalarJudgment[reply], j_threshold)
    ELSE /\ StructuredJudgment[reply] # NoneValue
         /\ StructuredRetained(StructuredJudgment[reply].value, j_threshold)

NumberOfResponse ==
    [reply \in ScalarReplies \cup StructuredReplies |->
        IF reply.kind = "content" THEN ParseFloat(Strip(reply.content)) ELSE NoneValue]

ResponseNumber(reply) == NumberOfResponse[reply]

\* the response is a number s with 0.0 <= s <= 1.0
ValidResponse(reply) ==
    /\ ResponseNumber(reply) # NoneValue
    /\ 0 <= ResponseNumber(reply).value
    /\ ResponseNumber(reply).value <= 100

\* C9: when a scalar pass (judge_multiple_news / judge_news_sequential) has
\* returned, an item is in the returned list iff the response to its request
\* is a number s with 0.0 <= s <= 1.0 and s >= threshold; so an item whose
\* response is non-numeric, out of range or a failure is dropped, whatever the
\* threshold (it is not scored 0).
C9_ScalarRetention ==
    (j_pc = "done" /\ method \in ScalarMethods) =>
        \A n \in 1..Len(j_news_items) :
            InList(returned, j_news_items[n]) <=>
                \E r \in 1..Len(requests) :
                    /\ requests[r][1] = j_news_items[n]
                    /\ ValidResponse(requests[r][2])
                    /\ ResponseNumber(requests[r][2]).value >= j_threshold

\* threshold 0.0: a non-numeric response is dropped although 0 >= 0, and the
\* response 0 is retained (inclusive bound)
C9_Witness ==
    /\ j_pc = "done"
    /\ method \in ScalarMethods
    /\ j_threshold = 0
    /\ requests = <<<<1, Content(TextHigh)>>, <<2, Content(Text0)>>>>
    /\ returned = <<2>>

HasPrintScore(item) == "print_score" \in DOMAIN item

\* every print_score an item carries, as its own key or inside its
\* judgment_result, is in [0.0, 1.0]
PrintScoreInRange ==
    \A id \in DOMAIN items :
        /\ HasPrintScore(items[id]) =>
              0 <= items[id].print_score /\ items[id].print_score <= 100
        /\ "judgment_result" \in DOMAIN items[id] =>
              /\ 0 <= items[id].judgment_result.print_score
              /\ items[id].judgment_result.print_score <= 100

\* the key print_score of the item is as it was
SamePrintScore(id) ==
    /\ HasPrintScore(items'[id]) = HasPrintScore(items[id])
    /\ HasPrintScore(items[id]) => items'[id].print_score = items[id].print_score

\* the step submits item id and takes an invalid response for it
InvalidResponseFor(id) ==
    /\ Len(requests') = Len(requests) + 1
    /\ requests'[Len(requests')][1] = id
    /\ ~ValidResponse(requests'[Len(requests')][2])

\* C10: in every state of a classification pass every print_score is in
\* [0.0, 1.0], and a step that takes an invalid response (non-numeric, out of
\* range or failed) for an item neither creates nor changes the print_score
\* of that item or of any other.
C10_PrintScoreInvariant ==
    /\ []PrintScoreInRange
    /\ [][\A id \in DOMAIN items :
             InvalidResponseFor(id) => \A other \in DOMAIN items : SamePrintScore(other)]_vars

\* an item that carried print_score 0.9 got the response 1.5 and still
\* carries 0.9, and an item without print_score got a failure and has none
C10_Witness ==
    /\ j_pc = "done"
    /\ method \in ScalarMethods
    /\ requests = <<<<1, Content(Text15)>>, <<2, Raise>>>>
    /\ HasPrintScore(items[1]) /\ items[1].print_score = 90
    /\ ~HasPrintScore(items[2])

HasJudgment(item) == "judgment_result" \in DOMAIN item

\* C11: in a structured pass (filter_and_dedupe_news / filter_news_sequential)
\* an item that has been submitted is in judged_items iff the call yielded a
\* judgment whose total_score is >= threshold AND whose include is true; a
\* score that is high enough with include = false, or include = true with a
\* score below the threshold, leaves the item out.
C11_StructuredRetention ==
    (j_pc \in {"loop", "done"} /\ method \in StructuredMethods) =>
        \A n \in 1..Len(requests) :
            InList(judged_items, j_news_items[n]) <=>
                /\ HasJudgment(items[j_news_items[n]])
                /\ items[j_news_items[n]].judgment_result.total_score >= j_threshold
                /\ items[j_news_items[n]].judgment_result.include

\* threshold 0.7: total_score 0.9 with include = false and total_score 0.5
\* with include = true are both dropped
C11_Witness ==
    /\ j_pc = "done"
    /\ method = "filter_and_dedupe_news"
    /\ j_threshold = 70
    /\ requests = <<<<1, ReplyExcluded>>, <<2, ReplyLow>>>>
    /\ items[1].judgment_result.total_score = 90 /\ ~items[1].judgment_result.include
    /\ items[2].judgment_result.total_score = 50 /\ items[2].judgment_result.include
    /\ judged_items = <<>>

-----------------------------------------------------------------------------
(* Specification SpecDomain: extract_domain and get_source_name on one link *)

SchemeHttps == <<"h", "t", "t", "p", "s", ":", "/", "/">>
SchemeHttp  == <<"h", "t", "t", "p", ":", "/", "/">>
HostBiz     == <<"b", "i", "z", ".">> \o DomainChosun
SchemeFtp   == <<"f", "t", "p", ":", "/", "/">>
SchemeFile  == <<"f", "i", "l", "e", ":", "/", "/">>
UrlSchemes  == {SchemeHttps, SchemeHttp, SchemeFtp, SchemeFile}
HostExample == <<"e", "x", "a", "m", "p", "l", "e", ".", "c", "o", "m">>
\* a host that contains the domains of both publishers of the table
HostBoth    == DomainHankyung \o <<".">> \o DomainChosun
UrlHosts    == {HostExample, DomainChosun, DomainHankyung, HostBiz, HostBoth}
UrlPaths    == {<<>>, <<"/">>, <<"/", "a", "/", "b">>}

\* scheme://[www.]host[/path], with the parts it is written from
WellFormedUrls ==
    {[url |-> Some(scheme \o www \o host \o path), kind |-> "url",
      scheme |-> scheme, host |-> host] :
        scheme \in UrlSchemes, www \in {WwwPrefix, <<>>}, host \in UrlHosts,
        path \in UrlPaths}

\* the other arguments: None, the empty string, text that names no host,
\* links without scheme, and text that starts with 'http' without '://'
Other(url, kind) == [url |-> url, kind |-> kind, scheme |-> <<>>, host |-> <<>>]

OtherUrls ==
    {Other(NoneValue, "null"),
     Other(Some(<<>>), "empty"),
     Other(Some(<<"?", "?", "?">>), "garbage"),
     Other(Some(<<"s", "o", "o", "n">>), "garbage"),
     Other(Some(HostExample), "no scheme"),
     Other(Some(WwwPrefix \o DomainChosun \o <<"/", "a">>), "no scheme"),
     Other(Some(SchemePrefix), "http without separator"),
     Other(Some(SchemePrefix \o HostExample), "http without separator"),
     Other(Some(SchemePrefix \o <<":", "/">> \o HostExample), "http without separator")}

InitDomain ==
    /\ JudgeIdle
    /\ PipeIdle
    /\ fn_pc = "ready"
    /\ fn_op = "none"
    /\ fn_in \in WellFormedUrls \cup OtherUrls
    /\ fn_out = <<>>

\* extract_domain(url)
CallExtractDomain ==
    /\ fn_pc = "ready"
    /\ fn_pc' = "done"
    /\ fn_op' = "extract_domain"
    /\ fn_out' = ExtractDomainCall(fn_in.url)
    /\ UNCHANGED <<fn_in, judgeVars, pipeVars>>

\* get_source_name(link), link a str
CallGetSourceName ==
    /\ fn_pc = "ready"
    /\ fn_in.url # NoneValue
    /\ fn_pc' = "done"
    /\ fn_op' = "get_source_name"
    /\ fn_out' = get_source_name(fn_in.url.value)
    /\ UNCHANGED <<fn_in, judgeVars, pipeVars>>

NextDomain == CallExtractDomain \/ CallGetSourceName

SpecDomain == InitDomain /\ [][NextDomain]_vars

\* C22: for a URL scheme://[www.]host[/path], whatever the scheme,
\* extract_domain returns host.
C22_HostOfAnyScheme ==
    (fn_pc = "done" /\ fn_op = "extract_domain" /\ fn_in.kind = "url") =>
        fn_out = [value |-> fn_in.host]

\* C22 as amended: for a URL scheme://[www.]host[/path] whose scheme is http
\* or https, extract_domain returns host.
C22_HostOfHttpScheme ==
    (fn_pc = "done" /\ fn_op = "extract_domain" /\ fn_in.kind = "url"
        /\ StartsWith(fn_in.scheme, SchemePrefix)) =>
        fn_out = [value |-> fn_in.host]

\* https://www.host/a/b gives host
C22_Witness ==
    /\ fn_pc = "done" /\ fn_op = "extract_domain" /\ fn_in.kind = "url"
    /\ fn_in.url = Some(SchemeHttps \o WwwPrefix \o fn_in.host \o <<"/", "a", "/", "b">>)
    /\ fn_out = [value |-> fn_in.host]

\* C23: extract_domain raises for no argument, and returns the empty string
\* for an empty argument, for None and for text that names no host.
C23_NeverRaisesGarbageEmpty ==
    (fn_pc = "done" /\ fn_op = "extract_domain") =>
        /\ "raised" \notin DOMAIN fn_out
        /\ fn_in.kind \in {"null", "empty", "garbage", "http without separator"}
              => fn_out = [value |-> <<>>]

\* C23 as amended: extract_domain raises for no argument that is a str or
\* None, and returns the empty string for the empty string, for None and for
\* text that starts with 'http' and has no '://'.
C23_NeverRaisesMalformedEmpty ==
    (fn_pc = "done" /\ fn_op = "extract_domain") =>
        /\ "raised" \notin DOMAIN fn_out
        /\ fn_in.kind \in {"null", "empty", "http without separator"}
              => fn_out = [value |-> <<>>]

\* the two exceptions of the body, each caught: None, and 'http' + host
C23_Witness ==
    /\ fn_pc = "done" /\ fn_op = "extract_domain"
    /\ ExtractDomainException(fn_in.url) \in {"IndexError", "AttributeError"}
    /\ fn_in.kind \in {"null", "http without separator"}
    /\ fn_out = [value |-> <<>>]

\* the entries of the table whose domain occurs in the extracted domain
MatchingEntries(domain) ==
    {n \in 1..Len(ALLOWED_SOURCES) : Contains(domain, ALLOWED_SOURCES[n][2])}

\* C24: get_source_name returns the name of the first entry of the table, in
\* insertion order, whose domain is a substring of the domain extracted from
\* the link, and the extracted domain itself when there is none.
C24_FirstMatchingEntry ==
    (fn_pc = "done" /\ fn_op = "get_source_name") =>
        \E domain \in {ExtractDomainCall(fn_in.url).value} :
            IF MatchingEntries(domain) = {} THEN fn_out = domain
            ELSE \E n \in MatchingEntries(domain) :
                    /\ \A m \in MatchingEntries(domain) : n <= m
                    /\ fn_out = ALLOWED_SOURCES[n][1]

\* the host that contains both domains, the second entry's before the first
\* entry's: the first entry of the table wins
C24_Witness ==
    /\ fn_pc = "done" /\ fn_op = "get_source_name"
    /\ fn_in.kind = "url" /\ fn_in.host = HostBoth
    /\ StartsWith(fn_in.scheme, SchemePrefix)
    /\ Cardinality(MatchingEntries(HostBoth)) = 2
    /\ fn_out = Chosun

-----------------------------------------------------------------------------
(* Specification SpecSearch: NaverNewsAPI.search_by_group, one step per call
   of search_news.  While the method runs, fn_out is its frame: the locals
   of the three nested loops and the calls of search_news issued so far. *)

MaxQueries == 3

\* display=100 of the call, and the page length the loop tests
PageSize == 100

GroupNames   == <<<<"A">>, <<"B">>>>
KeywordNames == <<<<"a", "i">>, <<"e", "v">>, <<"o", "s">>, <<"u", "x">>>>
PageLimits   == {1, 2, 3}

\* f'"{group}" "{keyword}"'
Query(group, keyword) ==
    <<"\"">> \o group \o <<"\"", " ", "\"">> \o keyword \o <<"\"">>

\* a cursor that counts from 0
CursorFromZero(page) == page * PageSize

\* start = page * 100 + 1
Cursor(page) == page * PageSize + 1

\* what search_news returns: None (status other than 200, or an exception),
\* a dict without 'items', or a dict whose 'items' are n results; a result
\* is named by the call that returned it and its rank in the page
Page(call, n) == [items |-> [k \in 1..n |-> <<call, k>>]]
NoItemsKey    == [errorMessage |-> "x"]
PageLengths   == {0, PageSize - 1, PageSize}
Replies(call) == {NoneValue, NoItemsKey} \cup {Page(call, n) : n \in PageLengths}

\* result and 'items' in result
HasItems(result) == result # NoneValue /\ "items" \in DOMAIN result

InitSearch ==
    /\ JudgeIdle
    /\ PipeIdle
    /\ fn_pc = "ready"
    /\ fn_op = "none"
    /\ \E g \in 1..Len(GroupNames), k \in 1..Len(KeywordNames), max_pages \in PageLimits :
          /\ g * k <= MaxQueries
          /\ fn_in = [selected_groups |-> SubSeq(GroupNames, 1, g),
                      keywords |-> SubSeq(KeywordNames, 1, k),
                      max_pages_per_keyword |-> max_pages]
    /\ fn_out = <<>>

\* search_by_group up to its first call of search_news
CallSearchByGroup ==
    /\ fn_pc = "ready"
    /\ fn_pc' = "search_news"
    /\ fn_op' = "search_by_group"
    /\ fn_out' = [calls |-> <<>>,
                  group |-> 1,             \* position in selected_groups
                  i |-> 1,                 \* position in search_keywords
                  page |-> 0,
                  all_items |-> <<>>,      \* of search_news_with_pagination
                  keyword_results |-> <<>>,\* all_results of search_multiple_keywords
                  all_results |-> <<>>]    \* of search_by_group
    /\ UNCHANGED <<fn_in, judgeVars, pipeVars>>

\* the frame after the call at the current position returned result: the
\* next page of the same query, or the end of the query and then the next
\* keyword, the next group, or the return
AfterReply(frame, call, result) ==
    LET page_items == IF HasItems(result) THEN result.items ELSE <<>>
        all_items  == frame.all_items \o page_items
        logged     == [frame EXCEPT !.calls = Append(@, call)]
    IN  IF HasItems(result) /\ ~(Len(page_items) < PageSize)
           /\ frame.page + 1 < fn_in.max_pages_per_keyword
        THEN [logged EXCEPT !.page = @ + 1, !.all_items = all_items]
        ELSE IF frame.i < Len(fn_in.keywords)
        THEN [logged EXCEPT !.page = 0, !.all_items = <<>>, !.i = @ + 1,
                            !.keyword_results = @ \o all_items]
        ELSE [logged EXCEPT !.page = 0, !.all_items = <<>>, !.i = 1,
                            !.keyword_results = <<>>,
                            !.group = @ + 1,
                            !.all_results = @ \o frame.keyword_results \o all_items]

\* one call of search_news and the statements up to the next call or to the
\* return of search_by_group
SearchNews ==
    /\ fn_pc = "search_news"
    /\ \E result \in Replies(Len(fn_out.calls) + 1) :
          \E call \in {[query |-> Query(fn_in.selected_groups[fn_out.group],
                                         fn_in.keywords[fn_out.i]),
                        start |-> Cursor(fn_out.page),
                        display |-> PageSize,
                        result |-> result]} :
              fn_out' = AfterReply(fn_out, call, result)
    /\ fn_pc' = IF fn_out'.group > Len(fn_in.selected_groups)
                THEN "done" ELSE "search_news"
    /\ UNCHANGED <<fn_op, fn_in, judgeVars, pipeVars>>

NextSearch == CallSearchByGroup \/ SearchNews

SpecSearch == InitSearch /\ [][NextSearch]_vars

\* the queries of a call of search_by_group, in order: one per pair
\* (category, keyword), categories first
Queries ==
    [n \in 1..(Len(fn_in.selected_groups) * Len(fn_in.keywords)) |->
        Query(fn_in.selected_groups[((n - 1) \div Len(fn_in.keywords)) + 1],
              fn_in.keywords[((n - 1) % Len(fn_in.keywords)) + 1])]

QueryNumber(query) == CHOOSE n \in DOMAIN Queries : Queries[n] = query

\* a page that is followed by another page of the same query
FullPage(result) == HasItems(result) /\ Len(result.items) = PageSize

\* the last page a query may ask for
LastCursor == (fn_in.max_pages_per_keyword - 1) * PageSize + 1

\* the results received in a sequence of calls, in order
RECURSIVE Received(_)
Received(calls) ==
    IF calls = <<>> THEN <<>>
    ELSE Received(SubSeq(calls, 1, Len(calls) - 1))
            \o (IF HasItems(calls[Len(calls)].result)
                THEN calls[Len(calls)].result.items ELSE <<>>)

\* C25: the calls of search_news of one search_by_group: the queries are the
\* pairs (category, keyword) in order, each asked from cursor 1 in steps of
\* 100 and at most max_pages times; a query is left after its first page
\* that is short or failed and never before; whatever a query returned, the
\* next query is asked; and the value returned is the concatenation of the
\* pages received.
C25_Pagination ==
    (fn_op = "search_by_group" /\ fn_pc \in {"search_news", "done"}) =>
        \E calls \in {fn_out.calls} :
            /\ \A n \in DOMAIN calls :
                  /\ \E q \in DOMAIN Queries : calls[n].query = Queries[q]
                  /\ calls[n].display = PageSize
                  /\ calls[n].start <= LastCursor
                  /\ n = 1 => calls[n].query = Queries[1] /\ calls[n].start = 1
                  /\ n > 1 =>
                        IF FullPage(calls[n - 1].result) /\ calls[n - 1].start < LastCursor
                        THEN /\ calls[n].query = calls[n - 1].query
                             /\ calls[n].start = calls[n - 1].start + PageSize
                        ELSE /\ QueryNumber(calls[n].query)
                                    = QueryNumber(calls[n - 1].query) + 1
                             /\ calls[n].start = 1
            /\ fn_pc = "done" =>
                  /\ calls # <<>>
                  /\ calls[Len(calls)].query = Queries[Len(Queries)]
                  /\ ~FullPage(calls[Len(calls)].result)
                        \/ calls[Len(calls)].start = LastCursor
                  /\ fn_out.all_results = Received(calls)

\* a query that failed on its first page, and the next query asked three
\* pages at cursors 1, 101 and 201
C25_Witness ==
    /\ fn_op = "search_by_group" /\ fn_pc = "done"
    /\ \E n \in 1..(Len(fn_out.calls) - 3) :
          /\ fn_out.calls[n].result = NoneValue /\ fn_out.calls[n].start = 1
          /\ fn_out.calls[n + 1].query # fn_out.calls[n].query
          /\ fn_out.calls[n + 1].start = 1
          /\ fn_out.calls[n + 2].start = 101
          /\ fn_out.calls[n + 3].start = 201
          /\ fn_out.calls[n + 3].query = fn_out.calls[n + 1].query
    /\ Len(fn_out.all_results) >= 2 * PageSize

-----------------------------------------------------------------------------
(* Specification SpecWindow: is_within_time_window and filter_by_time_window *)
(* on one publication timestamp and one window                               *)

Sun == <<"S", "u", "n">>

\* UTC offsets a timestamp is written with: +0900, +0000, -0500, +0530
Offsets == {<<"+", 9, 0>>, <<"+", 0, 0>>, <<"-", 5, 0>>, <<"+", 5, 30>>}

\* wall-clock readings of Sunday 17 and Monday 18 December 2023
StampParams ==
    [d : {17, 18}, hh : {1, 9, 10, 20}, mi : {0, 59}, ss : {0, 1, 59}, off : Offsets]

\* the timestamp as the provider writes it
StampText(p) ==
    FormatPubDate(IF p.d = 17 THEN Sun ELSE Mon, p.d, 12, 2023, p.hh, p.mi, p.ss,
                  p.off[1], p.off[2], p.off[3])

\* the instant the reading denotes, in seconds since 2000-01-01T00:00:00Z
StampInstant(p) ==
    DaysFromCivil(2023, 12, p.d) * 86400 + p.hh * 3600 + p.mi * 60 + p.ss
    + (IF p.off[1] = "+" THEN -1 ELSE 1) * (p.off[2] * 3600 + p.off[3] * 60)

IsoStamp ==
    <<"2", "0", "2", "3", "-", "1", "2", "-", "1", "8", "T", "0", "1", ":", "3", "0",
      ":", "0", "0", "+", "0", "9", ":", "0", "0">>

\* timestamps strptime refuses: empty, without offset, free text, ISO 8601,
\* an unknown month name, day 32, hour 24, second 60, offset +2400, and a
\* zone name in place of the offset
MalformedStamps ==
    {<<>>, PubNoOffset, <<"s", "o", "o", "n">>, IsoStamp,
     [PubMon18 EXCEPT ![11] = "x"],
     FormatPubDate(Mon, 32, 12, 2023, 1, 30, 0, "+", 9, 0),
     FormatPubDate(Mon, 18, 12, 2023, 24, 30, 0, "+", 9, 0),
     FormatPubDate(Mon, 18, 12, 2023, 1, 30, 60, "+", 9, 0),
     FormatPubDate(Mon, 18, 12, 2023, 1, 30, 0, "+", 24, 0),
     PubNoOffset \o <<" ", "K", "S", "T">>}

\* the pubDate of an item (NoneValue: the item has no such key) and the
\* instant it denotes (NoneValue: it denotes none)
WindowStamps ==
    {[pubDate |-> Some(StampText(p)), instant |-> Some(StampInstant(p))] :
        p \in StampParams}
    \cup {[pubDate |-> Some(text), instant |-> NoneValue] : text \in MalformedStamps}
    \cup {[pubDate |-> NoneValue, instant |-> NoneValue]}

\* (start_time, end_time): Sunday 17 to Monday 18 December 2023 10:00 KST,
\* the single instant Monday 10:00 KST, Sunday 17 to Friday 22 10:00 KST
Windows ==
    {<<KstInstant(2023, 12, 17, 10), KstInstant(2023, 12, 18, 10)>>,
     <<KstInstant(2023, 12, 18, 10), KstInstant(2023, 12, 18, 10)>>,
     <<KstInstant(2023, 12, 17, 10), KstInstant(2023, 12, 22, 10)>>}

InitWindow ==
    /\ JudgeIdle
    /\ PipeIdle
    /\ fn_pc = "ready"
    /\ fn_op = "none"
    /\ \E stamp \in WindowStamps, window \in Windows :
          fn_in = [stamp |-> stamp, start_time |-> window[1], end_time |-> window[2]]
    /\ fn_out = <<>>

\* the item that carries the timestamp
StampedItem ==
    IF fn_in.stamp.pubDate = NoneValue
    THEN [id |-> 1, title |-> TitleBank]
    ELSE [id |-> 1, title |-> TitleBank, pubDate |-> fn_in.stamp.pubDate.value]

\* is_within_time_window(pubdate_str, start_time, end_time)
CallIsWithinTimeWindow ==
    /\ fn_pc = "ready"
    /\ fn_in.stamp.pubDate # NoneValue
    /\ fn_pc' = "done"
    /\ fn_op' = "is_within_time_window"
    /\ fn_out' = is_within_time_window(fn_in.stamp.pubDate.value,
                                       fn_in.start_time, fn_in.end_time)
    /\ UNCHANGED <<fn_in, judgeVars, pipeVars>>

\* filter_by_time_window(news_items, start_time, end_time)
CallFilterByTimeWindow ==
    /\ fn_pc = "ready"
    /\ fn_pc' = "done"
    /\ fn_op' = "filter_by_time_window"
    /\ fn_out' = filter_by_time_window(<<StampedItem>>, fn_in.start_time, fn_in.end_time)
    /\ UNCHANGED <<fn_in, judgeVars, pipeVars>>

NextWindow == CallIsWithinTimeWindow \/ CallFilterByTimeWindow

SpecWindow == InitWindow /\ [][NextWindow]_vars

\* C16: is_within_time_window returns true iff the timestamp denotes an
\* instant t and start <= t <= end; so t = start and t = end are inside, and
\* the UTC offset the timestamp is written with does not matter.
C16_InclusiveWindowByInstant ==
    (fn_pc = "done" /\ fn_op = "is_within_time_window") =>
        (fn_out <=>
            /\ fn_in.stamp.instant # NoneValue
            /\ fn_in.start_time <= fn_in.stamp.instant.value
            /\ fn_in.stamp.instant.value <= fn_in.end_time)

\* Sunday 20:00:00 -0500 is the end of the window, Monday 10:00 KST: inside
C16_Witness ==
    /\ fn_pc = "done" /\ fn_op = "is_within_time_window"
    /\ fn_in.stamp.pubDate = Some(FormatPubDate(Sun, 17, 12, 2023, 20, 0, 0, "-", 5, 0))
    /\ fn_in.start_time < fn_in.end_time
    /\ fn_in.stamp.instant.value = fn_in.end_time
    /\ fn_out = TRUE

\* C17: a timestamp that is empty, malformed or without UTC offset is never
\* kept, whatever the window: is_within_time_window returns false and
\* filter_by_time_window drops the item.
C17_UnparsableNeverKept ==
    (fn_pc = "done" /\ fn_in.stamp.instant = NoneValue) =>
        /\ fn_op = "is_within_time_window" => fn_out = FALSE
        /\ fn_op = "filter_by_time_window" => fn_out = <<>>

\* the timestamp without offset, whose wall-clock reading lies in the window
C17_Witness ==
    /\ fn_pc = "done" /\ fn_op = "filter_by_time_window"
    /\ fn_in.stamp.pubDate = Some(PubNoOffset)
    /\ fn_in.end_time = KstInstant(2023, 12, 22, 10)
    /\ fn_out = <<>>

-----------------------------------------------------------------------------
(* Specification SpecFilters: the three filters of filters.py and their     *)
(* chain apply_all_filters on every bounded list of search results          *)

MaxFilterItems == 2

HostBlog    == <<"b", "l", "o", "g", ".", "k", "r">>

\* a link written from its parts, and the host it names
Link(scheme, www, host, path) ==
    [text |-> Some(scheme \o www \o host \o path), host |-> host]

\* the link, the pubDate, the title and the description of a search result;
\* link.text and stamp.pubDate are NoneValue when the item has no such key
Kind(link, stamp, title, description) ==
    [link |-> link, stamp |-> stamp, title |-> title, description |-> description]

LinkChosun == Link(SchemeHttps, WwwPrefix, DomainChosun, <<"/", "a">>)

\* Monday 18 December 2023 01:30 KST
StampInside ==
    [pubDate |-> Some(PubMon18), instant |-> Some(KstInstant(2023, 12, 18, 1) + 1800)]

Plain == <<"d">>

\* one item that passes every filter, and items that differ from it: in the
\* link (another allow-listed publisher, a subdomain, no scheme, another
\* site, another site with an allow-listed domain in the path, an empty
\* link, no link, "http" without "://"), in the pubDate (the end of the
\* window written with offset -0500, one second after it, no offset, no
\* pubDate), in title and description (the keyword in lower case in the
\* title, in mixed case in the description, a part of it only, its letters
\* split between the end of the title and the start of the description), and
\* in two respects at once
FilterKinds ==
    {Kind(LinkChosun, StampInside, TitleBank, Plain),
     Kind(Link(SchemeHttp, <<>>, DomainHankyung, <<"/", "b">>), StampInside, TitleBank, Plain),
     Kind(Link(SchemeHttps, <<>>, HostBiz, <<"/", "a">>), StampInside, TitleBank, Plain),
     Kind(Link(<<>>, <<>>, DomainChosun, <<"/", "a">>), StampInside, TitleBank, Plain),
     Kind(Link(SchemeHttps, <<>>, HostBlog, <<"/", "c">>), StampInside, TitleBank, Plain),
     Kind(Link(SchemeHttps, <<>>, HostBlog, <<"/">> \o DomainChosun), StampInside,
          TitleBank, Plain),
     Kind([text |-> Some(<<>>), host |-> <<>>], StampInside, TitleBank, Plain),
     Kind([text |-> NoneValue, host |-> <<>>], StampInside, TitleBank, Plain),
     Kind([text |-> Some(SchemePrefix \o DomainChosun), host |-> <<>>], StampInside,
          TitleBank, Plain),
     Kind(LinkChosun,
          [pubDate |-> Some(FormatPubDate(Sun, 17, 12, 2023, 20, 0, 0, "-", 5, 0)),
           instant |-> Some(KstInstant(2023, 12, 18, 10))],
          TitleBank, Plain),
     Kind(LinkChosun,
          [pubDate |-> Some(FormatPubDate(Mon, 18, 12, 2023, 10, 0, 1, "+", 9, 0)),
           instant |-> Some(KstInstant(2023, 12, 18, 10) + 1)],
          TitleBank, Plain),
     Kind(LinkChosun, [pubDate |-> Some(PubNoOffset), instant |-> NoneValue],
          TitleBank, Plain),
     Kind(LinkChosun, [pubDate |-> NoneValue, instant |-> NoneValue], TitleBank, Plain),
     Kind(LinkChosun, StampInside, <<"b", "t", "s", " ", "t", "o", "u", "r">>, Plain),
     Kind(LinkChosun, StampInside, TitleBank, <<"a", " ", "B", "t", "S", " ", "d", "a", "y">>),
     Kind(LinkChosun, StampInside, <<"B", "T">>, Plain),
     Kind(LinkChosun, StampInside, <<"t", "o", "p", " ", "B">>, <<"T", "S", " ", "u", "p">>),
     Kind(Link(SchemeHttps, <<>>, HostBlog, <<"/", "c">>), StampInside,
          <<"B", "T", "S">>, Plain),
     Kind(LinkChosun, [pubDate |-> Some(PubNoOffset), instant |-> NoneValue],
          TitleBank, <<"B", "T", "S">>)}

\* the dict of a search result
ItemOf(kind) ==
    [id |-> kind.id, title |-> kind.title, description |-> kind.description]
    @@ (IF kind.link.text = NoneValue THEN <<>> ELSE [link |-> kind.link.text.value])
    @@ (IF kind.stamp.pubDate = NoneValue THEN <<>>
        ELSE [pubDate |-> kind.stamp.pubDate.value])

ItemsOf(kinds) == [n \in 1..Len(kinds) |-> ItemOf(kinds[n])]

InitFilters ==
    /\ JudgeIdle
    /\ PipeIdle
    /\ fn_pc = "ready"
    /\ fn_op = "none"
    /\ \E kinds \in SeqsUpTo(FilterKinds, MaxFilterItems) :
          fn_in = [kinds |-> WithIds(kinds),
                   start_time |-> KstInstant(2023, 12, 17, 10),
                   end_time |-> KstInstant(2023, 12, 18, 10)]
    /\ fn_out = <<>>

\* filter_by_allowed_sources(news_items)
CallFilterByAllowedSources ==
    /\ fn_pc = "ready"
    /\ fn_pc' = "done"
    /\ fn_op' = "filter_by_allowed_sources"
    /\ fn_out' = filter_by_allowed_sources(ItemsOf(fn_in.kinds))
    /\ UNCHANGED <<fn_in, judgeVars, pipeVars>>

\* filter_by_time_window(news_items, start_time, end_time)
CallFilterByTimeWindowList ==
    /\ fn_pc = "ready"
    /\ fn_pc' = "done"
    /\ fn_op' = "filter_by_time_window"
    /\ fn_out' = filter_by_time_window(ItemsOf(fn_in.kinds), fn_in.start_time,
                                       fn_in.end_time)
    /\ UNCHANGED <<fn_in, judgeVars, pipeVars>>

\* filter_by_negative_keywords(news_items)
CallFilterByNegativeKeywords ==
    /\ fn_pc = "ready"
    /\ fn_pc' = "done"
    /\ fn_op' = "filter_by_negative_keywords"
    /\ fn_out' = filter_by_negative_keywords(ItemsOf(fn_in.kinds))
    /\ UNCHANGED <<fn_in, judgeVars, pipeVars>>

\* apply_all_filters(news_items, start_time, end_time)
CallApplyAllFilters ==
    /\ fn_pc = "ready"
    /\ fn_pc' = "done"
    /\ fn_op' = "apply_all_filters"
    /\ fn_out' = apply_all_filters(ItemsOf(fn_in.kinds), fn_in.start_time,
                                   fn_in.end_time)
    /\ UNCHANGED <<fn_in, judgeVars, pipeVars>>

NextFilters ==
    \/ CallFilterByAllowedSources
    \/ CallFilterByTimeWindowList
    \/ CallFilterByNegativeKeywords
    \/ CallApplyAllFilters

SpecFilters == InitFilters /\ [][NextFilters]_vars

\* the input items whose kind satisfies Keeps, in input order
Kept(Keeps(_)) == ItemsOf(SelectSeq(fn_in.kinds, Keeps))

\* the link is non-empty and its host contains an allow-listed domain
HostAllowed(kind) ==
    /\ kind.link.text \notin {NoneValue, Some(<<>>)}
    /\ \E n \in 1..Len(ALLOWED_SOURCES) : Contains(kind.link.host, ALLOWED_SOURCES[n][2])

\* C18: filter_by_allowed_sources keeps an item iff its link is non-empty and
\* the domain of the link contains an allow-listed domain as a substring; an
\* item with an empty or missing link is dropped.
C18_SourceFilter ==
    (fn_pc = "done" /\ fn_op = "filter_by_allowed_sources") =>
        fn_out = Kept(HostAllowed)

\* a subdomain of an allow-listed domain is kept, the other site that names
\* the domain in its path is dropped
C18_Witness ==
    /\ fn_pc = "done" /\ fn_op = "filter_by_allowed_sources"
    /\ Len(fn_in.kinds) = 2
    /\ fn_in.kinds[1].link = Link(SchemeHttps, <<>>, HostBlog, <<"/">> \o DomainChosun)
    /\ fn_in.kinds[2].link.host = HostBiz
    /\ fn_out = <<ItemOf(fn_in.kinds[2])>>

\* keyword occurs in text, letter case ignored
ContainsIgnoringCase(text, keyword) == Contains(Lower(text), Lower(keyword))

BlockedInConcatenation(kind) ==
    \E n \in 1..Len(NEGATIVE_KEYWORDS) :
        ContainsIgnoringCase(kind.title \o kind.description, NEGATIVE_KEYWORDS[n])

BlockedInEither(kind) ==
    \E n \in 1..Len(NEGATIVE_KEYWORDS) :
        \/ ContainsIgnoringCase(kind.title, NEGATIVE_KEYWORDS[n])
        \/ ContainsIgnoringCase(kind.description, NEGATIVE_KEYWORDS[n])

NotBlockedInConcatenation(kind) == ~BlockedInConcatenation(kind)

NotBlockedInEither(kind) == ~BlockedInEither(kind)

InWindow(kind) ==
    /\ kind.stamp.instant # NoneValue
    /\ fn_in.start_time <= kind.stamp.instant.value
    /\ kind.stamp.instant.value <= fn_in.end_time

PassesAll(kind) == HostAllowed(kind) /\ InWindow(kind) /\ NotBlockedInEither(kind)

\* C20: the output of apply_all_filters is exactly the input items that pass
\* the source filter, the time-window filter and the negative-keyword filter,
\* in input order; every filter and the chain return [] for the empty list.
C20_ChainKeepsWhatPassesAll ==
    fn_pc = "done" =>
        /\ fn_op = "apply_all_filters" => fn_out = Kept(PassesAll)
        /\ fn_in.kinds = <<>> => fn_out = <<>>

\* of two items the first fails one filter only and the second passes all
C20_Witness ==
    /\ fn_pc = "done" /\ fn_op = "apply_all_filters"
    /\ Len(fn_in.kinds) = 2
    /\ HostAllowed(fn_in.kinds[1]) /\ NotBlockedInEither(fn_in.kinds[1])
    /\ ~InWindow(fn_in.kinds[1])
    /\ PassesAll(fn_in.kinds[2])
    /\ fn_out = <<ItemOf(fn_in.kinds[2])>>

-----------------------------------------------------------------------------
(* Specification SpecCollapse: _dedupe_with_print_priority on every bounded *)
(* list of judged items                                                     *)

MaxCollapseItems == 3

\* the judgment_result a retained item carries
Judgment(print_score, total_score) ==
    [print_score |-> print_score, utility_score |-> 80,
     total_score |-> total_score, include |-> TRUE, reason |-> <<"o", "k">>,
     raw_response |-> <<>>]

\* judged items: four under one normalized title (publishers of rank 10, 5
\* and 0; scores 0.9/0.8, 1.0/0.8 and 0.9/1.0), one under another title, one
\* with a blank title, two whose titles are punctuation only
CollapseFields ==
    {[title |-> TitleSamsung, source_name |-> Chosun,
      judgment_result |-> Judgment(90, 80)],
     [title |-> TitleSamsungVariant, source_name |-> Hankyung,
      judgment_result |-> Judgment(90, 80)],
     [title |-> TitleSamsungVariant, source_name |-> DomainOther,
      judgment_result |-> Judgment(100, 80)],
     [title |-> TitleSamsung, source_name |-> DomainOther,
      judgment_result |-> Judgment(90, 100)],
     [title |-> TitleBank, source_name |-> DomainOther,
      judgment_result |-> Judgment(50, 70)],
     [title |-> TitleBlank, source_name |-> Hankyung,
      judgment_result |-> Judgment(90, 80)],
     [title |-> TitlePunct, source_name |-> Chosun,
      judgment_result |-> Judgment(90, 80)],
     [title |-> TitlePunctOther, source_name |-> Hankyung,
      judgment_result |-> Judgment(50, 70)]}

InitCollapse ==
    /\ JudgeIdle
    /\ PipeIdle
    /\ fn_pc = "ready"
    /\ fn_op = "none"
    /\ fn_in \in {WithIds(f) : f \in SeqsUpTo(CollapseFields, MaxCollapseItems)}
    /\ fn_out = <<>>

\* GPTNewsFilter._dedupe_with_print_priority(news_items)
CallDedupeWithPrintPriority ==
    /\ fn_pc = "ready"
    /\ fn_pc' = "done"
    /\ fn_op' = "dedupe_with_print_priority"
    /\ fn_out' = dedupe_with_print_priority(fn_in)
    /\ UNCHANGED <<fn_in, judgeVars, pipeVars>>

NextCollapse == CallDedupeWithPrintPriority

SpecCollapse == InitCollapse /\ [][NextCollapse]_vars

CollapseDone == fn_pc = "done" /\ fn_op = "dedupe_with_print_priority"

\* the positions of the input items that share the normalized title of item n
GroupPositions(n) == {m \in 1..Len(fn_in) : TitleKey(fn_in[m]) = TitleKey(fn_in[n])}

\* C13: after _dedupe_with_print_priority, every group of input items that
\* share one non-empty normalized title has exactly one item in the output,
\* and that item is a member of the group; so no two output items have the
\* same normalized title; an item alone in its group is in the output as it
\* was.
C13_OneSurvivorPerGroup ==
    CollapseDone =>
        /\ \A n \in 1..Len(fn_in) :
              TitleKey(fn_in[n]) # <<>> =>
                  /\ Cardinality({m \in 1..Len(fn_out) :
                                     TitleKey(fn_out[m]) = TitleKey(fn_in[n])}) = 1
                  /\ \E g \in GroupPositions(n) : InList(fn_out, fn_in[g])
                  /\ GroupPositions(n) = {n} => InList(fn_out, fn_in[n])
        /\ \A m \in 1..Len(fn_out) : InList(fn_in, fn_out[m])

\* two items under one normalized title and a third under another: two
\* items come out, the third unchanged
C13_Witness ==
    /\ CollapseDone
    /\ Len(fn_in) = 3
    /\ TitleKey(fn_in[1]) = TitleKey(fn_in[2])
    /\ fn_in[1].title # fn_in[2].title
    /\ fn_in[3].title = TitleBank
    /\ Len(fn_out) = 2
    /\ fn_out[2] = fn_in[3]

\* the weighted score of the claim, 0.6*print_score + 0.3*total_score +
\* 0.1*(rank/10), as a number: in units of 1/1000 of the scores' hundredths
WeightedScore(item) ==
    6 * Get(Get(item, "judgment_result", <<>>), "print_score", 0)
    + 3 * Get(Get(item, "judgment_result", <<>>), "total_score", 0)
    + 10 * Get(source_priority, Get(item, "source_name", <<>>), 0)

\* the first position of the group of item n whose weighted score is the
\* maximum of the group
FirstMaximum(n) ==
    CHOOSE g \in GroupPositions(n) :
        /\ \A h \in GroupPositions(n) :
              WeightedScore(fn_in[h]) <= WeightedScore(fn_in[g])
        /\ \A h \in GroupPositions(n) :
              h < g => WeightedScore(fn_in[h]) < WeightedScore(fn_in[g])

\* C14: in a group of more than one item under a non-empty normalized title,
\* the survivor is the item whose weighted score 0.6*print_score +
\* 0.3*total_score + 0.1*(rank/10) is the maximum of the group (rank 0 for an
\* unranked publisher), and among several items with the maximum it is the
\* first of the input.
C14_MaximumWeightedScoreFirstSeen ==
    CollapseDone =>
        \A n \in 1..Len(fn_in) :
            (TitleKey(fn_in[n]) # <<>> /\ Cardinality(GroupPositions(n)) > 1) =>
                InList(fn_out, fn_in[FirstMaximum(n)])

\* what does hold of the selection: an item whose weighted score is above
\* that of every other item of its group survives, and of two items with
\* the same scores and the same rank the later one never does
StrictMaximumSurvives ==
    CollapseDone =>
        \A n \in 1..Len(fn_in) :
            /\ (/\ TitleKey(fn_in[n]) # <<>>
                /\ \A h \in GroupPositions(n) \ {n} :
                      WeightedScore(fn_in[h]) < WeightedScore(fn_in[n]))
                  => InList(fn_out, fn_in[n])
            /\ (\E h \in GroupPositions(n) :
                    /\ h < n
                    /\ CombinedScore(fn_in[h]) = CombinedScore(fn_in[n]))
                  => ~InList(fn_out, fn_in[n])

\* C15: after _dedupe_with_print_priority, every input item whose normalized
\* title is empty (title empty, whitespace only or punctuation only) is still
\* in the output: it was neither removed nor merged with another item.
C15_UntitledNeverMerged ==
    CollapseDone =>
        \A n \in 1..Len(fn_in) :
            TitleKey(fn_in[n]) = <<>> => InList(fn_out, fn_in[n])

\* C29: the items the classification stage emits are items of its input, in
\* the relative order they had in the input; here for the near-duplicate
\* collapse that ends the structured mode.
C29_InputOrderKept ==
    CollapseDone => IsSublistOfInput(fn_out, fn_in)

\* what does hold of the scalar mode: the list a scalar pass returns is a
\* sublist of its input, in input order (under SpecJudge)
ScalarOrderKept ==
    (j_pc = "done" /\ method \in ScalarMethods) =>
        /\ \A k \in 1..Len(returned) : InList(j_news_items, returned[k])
        /\ \A a, b \in 1..Len(returned) :
              a < b => \E m, n \in 1..Len(j_news_items) :
                          m < n /\ j_news_items[m] = returned[a]
                                /\ j_news_items[n] = returned[b]

-----------------------------------------------------------------------------
(* Specification SpecParse: GPTNewsFilter.judge_single_news on every reply  *)
(* whose three score lines are, each on its own, valid, malformed or absent *)

Text1 == <<"1">>

\* what follows the label of a score line: a number in [0.0, 1.0], a text
\* that is no number, a number out of range; NoneValue: the line is absent
ScoreTexts ==
    {Some(Text08), Some(Text05), Some(Text1), Some(TextHigh), Some(Text15),
     Some(TextMinus01), NoneValue}

\* a labelled line of the reply, or nothing
ReplyLine(label, text) ==
    IF text = NoneValue THEN <<>> ELSE label \o <<" ">> \o text.value \o <<"\n">>

\* the reply in the format of lines 241-245 with the lines that are present
ReplyText(fields) ==
    ReplyLine(LabelPrint, fields.print_text)
    \o ReplyLine(LabelUtility, fields.utility_text)
    \o ReplyLine(LabelTotal, fields.total_text)
    \o ReplyLine(LabelInclude, Some(fields.include_text))
    \o LabelReason \o <<" ">> \o <<"o", "k">>

InitParse ==
    /\ JudgeIdle
    /\ PipeIdle
    /\ fn_pc = "ready"
    /\ fn_op = "none"
    /\ fn_in \in [print_text : ScoreTexts, utility_text : ScoreTexts,
                  total_text : ScoreTexts, include_text : {TokenYes, TextNo}]
    /\ fn_out = <<>>

\* GPTNewsFilter.judge_single_news when the classifier answers ReplyText
CallJudgeSingleNews ==
    /\ fn_pc = "ready"
    /\ fn_pc' = "done"
    /\ fn_op' = "judge_single_news"
    /\ fn_out' = NewsFilter_judge_single_news(Content(ReplyText(fn_in)))
    /\ UNCHANGED <<fn_in, judgeVars, pipeVars>>

NextParse == CallJudgeSingleNews

SpecParse == InitParse /\ [][NextParse]_vars

\* the value a score field must get: the number of its line when the line is
\* present and is a number in [0.0, 1.0], else 0.0
ExpectedScore(text) ==
    IF /\ text # NoneValue
       /\ ParseFloat(text.value) # NoneValue
       /\ 0 <= ParseFloat(text.value).value
       /\ ParseFloat(text.value).value <= 100
    THEN ParseFloat(text.value).value ELSE 0

\* C12: judge_single_news of the structured mode yields a judgment record for
\* every reply text, and in it each of print_score, utility_score and
\* total_score is the number of its own labelled line when that line is
\* present, numeric and in [0.0, 1.0], and 0.0 otherwise, whatever the other
\* two lines are.
C12_FieldDefaults ==
    (fn_pc = "done" /\ fn_op = "judge_single_news") =>
        /\ fn_out # NoneValue
        /\ fn_out.value.print_score = ExpectedScore(fn_in.print_text)
        /\ fn_out.value.utility_score = ExpectedScore(fn_in.utility_text)
        /\ fn_out.value.total_score = ExpectedScore(fn_in.total_text)
        /\ fn_out.value.include = (fn_in.include_text = TokenYes)

\* print line out of range, utility line absent, total line valid: only the
\* total score is kept
C12_Witness ==
    /\ fn_pc = "done"
    /\ fn_op = "judge_single_news"
    /\ fn_in.print_text = Some(Text15)
    /\ fn_in.utility_text = NoneValue
    /\ fn_in.total_text = Some(Text08)
    /\ fn_out # NoneValue
    /\ fn_out.value.print_score = 0
    /\ fn_out.value.utility_score = 0
    /\ fn_out.value.total_score = 80

-----------------------------------------------------------------------------
(* app.py: check_environment and execute_news_search *)

\* the check of check_environment skipped
check_environment_skipped(environ) == TRUE

\* line 202
required_vars == {"NAVER_CLIENT_ID", "NAVER_CLIENT_SECRET"}

\* check_environment: no required variable is missing
check_environment(environ) == \A var \in required_vars : var \in environ

\* a stage that never tells the orchestrator to stop
StageYieldsSomething(results) == FALSE

\* the tests `if not raw_results` and `if not filtered_results`, lines 106, 118
StageYieldsNothing(results) == results = <<>>

\* NaverNewsAPI.__init__, line 19 of services/naver_api.py: raises ValueError
NaverCredentialsMissing(environ) ==
    "NAVER_CLIENT_ID" \notin environ \/ "NAVER_CLIENT_SECRET" \notin environ

\* GPTPrintJudger.__init__, lines 16-18 of services/gpt_judger.py: raises
\* ValueError
OpenAIKeyMissing(environ) == "OPENAI_API_KEY" \notin environ

\* a missing-credential error: where it was raised and for which variables
MissingCredential(at, missing) == [at |-> at, missing |-> missing]

\* execute_news_search returns value
Return(value) ==
    /\ news_results' = value
    /\ p_pc' = "returned"

-----------------------------------------------------------------------------
(* Specification Spec: app.py from startup to the return of one run of      *)
(* execute_news_search, against every bounded search result and every reply *)
(* of the classifier                                                        *)

MaxRawItems == 2

UrlChosun   == <<"h", "t", "t", "p", "s", ":", "/", "/", "w", "w", "w", ".", "c", "h", "o", "s", "u", "n", ".", "c", "o", "m", "/", "a">>
UrlHankyung == <<"h", "t", "t", "p", ":", "/", "/", "h", "a", "n", "k", "y", "u", "n", "g", ".", "c", "o", "m", "/", "b">>
UrlBlog     == <<"h", "t", "t", "p", "s", ":", "/", "/", "b", "l", "o", "g", ".", "k", "r", "/", "c">>

TitleIdol == <<"b", "t", "s", " ", "t", "o", "u", "r">>

\* the items the search collaborator may return: two of allow-listed
\* publishers, a second item under the link of the first, one of another
\* site, one without link, one with a blocked keyword, one whose pubDate does
\* not parse
RawFields ==
    {[title |-> TitleBank, description |-> <<"d">>, link |-> UrlChosun,
      pubDate |-> PubMon18],
     [title |-> TitleSamsung, description |-> <<"d">>, link |-> UrlHankyung,
      pubDate |-> PubFri22],
     [title |-> TitleSamsungVariant, description |-> <<"d">>, link |-> UrlChosun,
      pubDate |-> PubFri22],
     [title |-> TitleBank, description |-> <<"d">>, link |-> UrlBlog,
      pubDate |-> PubFri22],
     [title |-> TitleBank, description |-> <<"d">>, link |-> <<>>,
      pubDate |-> PubFri22],
     [title |-> TitleIdol, description |-> <<"d">>, link |-> UrlHankyung,
      pubDate |-> PubFri22],
     [title |-> TitleBank, description |-> <<"d">>, link |-> UrlHankyung,
      pubDate |-> PubNoOffset]}

\* (start_time, end_time) of the sidebar: Sunday 17 to Friday 22 December 2023
\* 10:00 KST, and Thursday 21 to Friday 22 10:00 KST
TimeWindows ==
    {<<KstInstant(2023, 12, 17, 10), KstInstant(2023, 12, 22, 10)>>,
     <<KstInstant(2023, 12, 21, 10), KstInstant(2023, 12, 22, 10)>>}

EnvironmentVariables == {"NAVER_CLIENT_ID", "NAVER_CLIENT_SECRET", "OPENAI_API_KEY"}

Init ==
    /\ FnIdle
    /\ JudgeIdle
    /\ env \in SUBSET EnvironmentVariables
    /\ p_pc = "startup"
    /\ use_gpt = FALSE
    /\ threshold = 0
    /\ start_time = 0
    /\ end_time = 0
    /\ raw_results = <<>>
    /\ filtered_results = <<>>
    /\ cleaned_results = <<>>
    /\ news_results = <<>>
    /\ stages = <<>>
    /\ errors = <<>>

runVars == <<raw_results, filtered_results, cleaned_results, news_results, stages>>

argVars == <<use_gpt, threshold, start_time, end_time>>

\* lines 213-218: check_environment() decides between main() and st.stop()
CheckEnvironment ==
    /\ p_pc = "startup"
    /\ IF check_environment(env)
       THEN p_pc' = "main" /\ UNCHANGED errors
       ELSE /\ p_pc' = "stopped"
            /\ errors' = Append(errors,
                   MissingCredential("startup", required_vars \ env))
    /\ UNCHANGED <<env, argVars, runVars, fnVars, judgeVars>>

\* lines 50-61: the search button calls execute_news_search with the values
\* of the sidebar
ClickSearch ==
    /\ p_pc = "main"
    /\ p_pc' = "search"
    /\ use_gpt' \in BOOLEAN
    /\ threshold' \in Thresholds
    /\ \E w \in TimeWindows : start_time' = w[1] /\ end_time' = w[2]
    /\ UNCHANGED <<env, runVars, errors, fnVars, judgeVars>>

\* lines 103-110: NaverNewsAPI() and search_by_group; the ValueError of the
\* constructor is caught at line 161
Search ==
    /\ p_pc = "search"
    /\ IF NaverCredentialsMissing(env)
       THEN /\ errors' = Append(errors,
                   MissingCredential("pipeline", required_vars \ env))
            /\ Return(<<>>)
            /\ UNCHANGED <<items, raw_results, stages>>
       ELSE /\ \E fields \in SeqsUpTo(RawFields, MaxRawItems) :
                  /\ items' = WithIds(fields)
                  /\ raw_results' = Ids(WithIds(fields))
            /\ stages' = Append(stages, "search")
            /\ IF StageYieldsNothing(raw_results')
               THEN Return(<<>>)
               ELSE p_pc' = "filter" /\ UNCHANGED news_results
            /\ UNCHANGED errors
    /\ UNCHANGED <<env, argVars, filtered_results, cleaned_results, fnVars,
                   j_pc, method, j_news_items, j_threshold, j_batch_size,
                   j_i, j_k, judged_items, returned, requests>>

\* lines 116-122: apply_all_filters
Filter ==
    /\ p_pc = "filter"
    /\ \E kept \in {apply_all_filters(Deref(items, raw_results), start_time, end_time)} :
          /\ filtered_results' = Ids(kept)
          /\ IF StageYieldsNothing(kept)
             THEN Return(<<>>)
             ELSE p_pc' = "enrich" /\ UNCHANGED news_results
    /\ stages' = Append(stages, "filter")
    /\ UNCHANGED <<env, argVars, raw_results, cleaned_results, errors, fnVars,
                   judgeVars>>

\* line 125: add_source_info writes source_name and domain into the items of
\* the list and returns the list
Enrich ==
    /\ p_pc = "enrich"
    /\ items' = [id \in DOMAIN items |->
                    IF InList(filtered_results, id)
                    THEN SourceInfoAdded(items[id]) ELSE items[id]]
    /\ stages' = Append(stages, "enrich")
    /\ p_pc' = "clean"
    /\ UNCHANGED <<env, argVars, raw_results, filtered_results, cleaned_results,
                   news_results, errors, fnVars,
                   j_pc, method, j_news_items, j_threshold, j_batch_size,
                   j_i, j_k, judged_items, returned, requests>>

\* lines 129-134 and 159: clean_news_data, then the test of line 134
Clean ==
    /\ p_pc = "clean"
    /\ \E cleaned \in {clean_news_data(Deref(items, filtered_results))} :
          /\ cleaned_results' = Ids(cleaned)
          /\ IF use_gpt /\ cleaned # <<>>
             THEN p_pc' = "classify" /\ UNCHANGED news_results
             ELSE Return(Ids(cleaned))
    /\ stages' = Append(stages, "clean")
    /\ UNCHANGED <<env, argVars, raw_results, filtered_results, errors, fnVars,
                   judgeVars>>

\* lines 137-145 and 154-157: GPTPrintJudger() and the call of
\* judge_multiple_news with batch_size=5; the ValueError of the constructor
\* is caught at line 154
Classify ==
    /\ p_pc = "classify"
    /\ j_pc = "idle"
    /\ IF OpenAIKeyMissing(env)
       THEN /\ errors' = Append(errors,
                   MissingCredential("pipeline", {"OPENAI_API_KEY"}))
            /\ Return(cleaned_results)
            /\ UNCHANGED <<stages, judgeVars>>
       ELSE /\ StartPass("judge_multiple_news", cleaned_results, threshold, 5)
            /\ stages' = Append(stages, "classify")
            /\ UNCHANGED <<items, p_pc, news_results, errors>>
    /\ UNCHANGED <<env, argVars, raw_results, filtered_results, cleaned_results,
                   fnVars>>

\* lines 147-152: judge_multiple_news has returned
ReturnJudged ==
    /\ p_pc = "classify"
    /\ j_pc = "done"
    /\ Return(returned)
    /\ UNCHANGED <<env, argVars, raw_results, filtered_results, cleaned_results,
                   stages, errors, fnVars, judgeVars>>

Next ==
    \/ CheckEnvironment
    \/ ClickSearch
    \/ Search
    \/ Filter
    \/ Enrich
    \/ Clean
    \/ Classify
    \/ JudgeItem
    \/ ReturnJudged

Spec == Init /\ [][Next]_vars

Returned == p_pc = "returned"

\* the stage was invoked
Ran(stage) == InList(stages, stage)

\* C5: when execute_news_search with use_gpt enabled has returned after a
\* classification pass in which every call failed with a transport error, the
\* value it returned is the pre-classification set cleaned_results (the
\* deduplicated, sorted items), not an empty list.
C5_OutageReturnsPreClassification ==
    (/\ Returned
     /\ use_gpt
     /\ Ran("classify")
     /\ \A r \in 1..Len(requests) : requests[r][2] = Raise)
        => news_results = cleaned_results /\ news_results # <<>>

\* C6 as stated: a missing credential, of the search or of the classifier, is
\* detected at startup and stops the program there, so that a run of
\* execute_news_search starts only with every credential present and no
\* missing-credential error is raised inside it.
C6_CredentialErrorsOnlyAtStartup ==
    /\ p_pc \notin {"startup", "stopped"} => EnvironmentVariables \subseteq env
    /\ \A n \in 1..Len(errors) : errors[n].at = "startup"

\* C6 as the code has it: a missing search credential (NAVER_CLIENT_ID,
\* NAVER_CLIENT_SECRET) is detected at startup and stops the program there,
\* so a run starts only with both present and raises no error for them; the
\* classifier credential (OPENAI_API_KEY) is not checked at startup: its
\* absence is detected inside the run, only when use_gpt is enabled, before
\* any classifier request, and the run then returns cleaned_results.
C6_SearchCredentialsAtStartup ==
    /\ p_pc \notin {"startup", "stopped"} => required_vars \subseteq env
    /\ (p_pc = "stopped") <=> (errors # <<>> /\ errors[1].at = "startup")
    /\ \A n \in 1..Len(errors) :
          /\ errors[n].at = "startup" =>
                errors[n].missing # {} /\ errors[n].missing \subseteq required_vars
          /\ errors[n].at = "pipeline" =>
                /\ errors[n].missing = {"OPENAI_API_KEY"}
                /\ "OPENAI_API_KEY" \notin env
                /\ use_gpt
                /\ Returned
                /\ requests = <<>>
                /\ news_results = cleaned_results
                /\ news_results # <<>>

\* a run that started without the classifier credential, hit the error at
\* the classification stage and returned the two cleaned items
C6_Witness ==
    /\ Returned
    /\ env = required_vars
    /\ errors = <<MissingCredential("pipeline", {"OPENAI_API_KEY"})>>
    /\ Len(cleaned_results) = 2
    /\ news_results = cleaned_results

StageOrder == <<"search", "filter", "enrich", "clean", "classify">>

\* C7: execute_news_search invokes its stages in the order search, filter
\* chain, source enrichment, dedupe/sort, classification (the last only with
\* use_gpt), classifier requests are issued only after all of them have been
\* invoked, and it returns an empty result as soon as a stage yields no item,
\* having invoked no later stage: after an empty search only the search ran,
\* after an empty filtered set only search and filter ran and no classifier
\* request was issued; a run whose stages all yield items goes through all
\* of them.
C7_StagesInOrderShortCircuit ==
    /\ stages = SubSeq(StageOrder, 1, Len(stages))
    /\ requests # <<>> => stages = StageOrder
    /\ Ran("classify") => use_gpt
    /\ Returned =>
          /\ (Ran("search") /\ raw_results = <<>>) =>
                stages = <<"search">> /\ news_results = <<>>
          /\ (Ran("filter") /\ filtered_results = <<>>) =>
                /\ stages = <<"search", "filter">>
                /\ news_results = <<>>
                /\ requests = <<>>
          /\ (Ran("clean") /\ cleaned_results = <<>>) =>
                stages = SubSeq(StageOrder, 1, 4) /\ news_results = <<>>
          /\ (Ran("classify") /\ returned = <<>>) => news_results = <<>>
          /\ (Ran("filter") /\ filtered_results # <<>>) => Ran("clean")
          /\ (Ran("clean") /\ cleaned_results # <<>> /\ use_gpt /\ errors = <<>>) =>
                Ran("classify") /\ Len(requests) = Len(cleaned_results)

\* a run with use_gpt and the classifier credential whose search found two
\* items, of which the filter chain kept none: it returned [] after the
\* filter stage
C7_Witness ==
    /\ Returned
    /\ use_gpt
    /\ "OPENAI_API_KEY" \in env
    /\ Len(raw_results) = 2
    /\ filtered_results = <<>>
    /\ stages = <<"search", "filter">>
    /\ requests = <<>>
    /\ news_results = <<>>

-----------------------------------------------------------------------------
(* Frame of the pipeline stages *)

\* the keys the resolver and the classifier add
ResolverKeys   == {"source_name", "domain"}
ClassifierKeys == {"print_score", "judgment_result"}

\* the keys of the item id whose value the step changes or adds
KeysWritten(id) ==
    {key \in DOMAIN items'[id] :
        key \notin DOMAIN items[id] \/ items'[id][key] # items[id][key]}

\* C21: a step of the pipeline after ingestion removes no item and no key;
\* it never changes link or pubDate; the filter chain and the dedupe/sort
\* stage write nothing; the resolver writes source_name and domain only, the
\* classifier print_score and judgment_result only.
C21_Frame ==
    [][p_pc # "search" =>
          \A id \in DOMAIN items :
              /\ id \in DOMAIN items'
              /\ DOMAIN items[id] \subseteq DOMAIN items'[id]
              /\ KeysWritten(id) \subseteq ResolverKeys \cup ClassifierKeys
              /\ p_pc \in {"filter", "clean"} => KeysWritten(id) = {}
              /\ p_pc = "enrich" => KeysWritten(id) \subseteq ResolverKeys
              /\ p_pc = "classify" => KeysWritten(id) \subseteq ClassifierKeys]_vars

\* a run has returned an item that passed every stage: it carries
\* source_name, domain and print_score, and its link is the one it came with
C21_Witness ==
    /\ p_pc = "returned"
    /\ stages = StageOrder
    /\ news_results # <<>>
    /\ {"source_name", "domain", "print_score"} \subseteq DOMAIN items[news_results[1]]
    /\ items[news_results[1]].link \in {UrlChosun, UrlHankyung}

-----------------------------------------------------------------------------
(* Specification SpecRerun: a scalar pass, and then a second scalar pass on
   the same list against the same replies.  The classifier's reply to each
   item is fixed at the start (fn_in.replies); the second pass starts from
   the items as they were before the first (fn_in.items), and fn_out keeps
   what the first pass did. *)

RerunThresholds == {0, 50, 70}

\* a call that fails, 0.7, 0.5 with white space, and a score out of range
RerunReplies == {Raise, Content(Text07), Content(Text05Padded), Content(Text15)}

\* an enriched item, and one that carries the print_score of an earlier pass
RerunFields ==
    {[title |-> TitleSamsung, description |-> <<"d">>,
      domain |-> DomainChosun, source_name |-> Chosun],
     [title |-> TitleBank, description |-> <<"d">>,
      domain |-> DomainOther, source_name |-> DomainOther, print_score |-> 90]}

InitRerun ==
    /\ PipeIdle
    /\ items \in {WithIds(f) : f \in SeqsUpTo(RerunFields, MaxJudgeItems)}
    /\ j_news_items = [n \in 1..Len(items) |-> n]
    /\ j_pc = "idle"
    /\ method = "none"
    /\ j_threshold = 0
    /\ j_batch_size = 0
    /\ j_i = 0
    /\ j_k = 0
    /\ judged_items = <<>>
    /\ returned = <<>>
    /\ requests = <<>>
    /\ fn_pc = "first"
    /\ fn_op = "none"
    /\ \E replies \in [DOMAIN items -> RerunReplies] :
          fn_in = [replies |-> replies, items |-> items]
    /\ fn_out = <<>>

\* judge_multiple_news(news_items, threshold, batch_size) or
\* judge_news_sequential(news_items, threshold)
StartScalarPass ==
    \/ \E t \in RerunThresholds, bs \in BatchSizes :
          StartPass("judge_multiple_news", j_news_items, t, bs)
    \/ \E t \in RerunThresholds :
          StartPass("judge_news_sequential", j_news_items, t, 0)

CallScalarPass ==
    /\ fn_pc = "first"
    /\ j_pc = "idle"
    /\ StartScalarPass
    /\ UNCHANGED <<items, fnVars, pipeVars>>

\* one item of the pass, the classifier answering as fixed for that item
JudgeItemReplayed ==
    /\ j_pc = "loop"
    /\ method \in ScalarMethods
    /\ ScalarStep(fn_in.replies[CurrentId])
    /\ UNCHANGED <<fnVars, pipeVars>>

\* the second pass, on the list as it was
CallScalarPassAgain ==
    /\ fn_pc = "first"
    /\ j_pc = "done"
    /\ fn_pc' = "second"
    /\ fn_out' = [method |-> method, threshold |-> j_threshold,
                  batch_size |-> j_batch_size, requests |-> requests,
                  returned |-> returned, items |-> items]
    /\ items' = fn_in.items
    /\ StartScalarPass
    /\ UNCHANGED <<fn_op, fn_in, pipeVars>>

NextRerun == CallScalarPass \/ JudgeItemReplayed \/ CallScalarPassAgain

SpecRerun == InitRerun /\ [][NextRerun]_vars

SecondPassDone == fn_pc = "second" /\ j_pc = "done"

Elements(list) == {list[n] : n \in 1..Len(list)}

\* C27: of two runs of judge_multiple_news on one list against the same
\* replies, the run with the higher threshold retains a subset of what the
\* run with the lower threshold retains.
C27_ThresholdMonotone ==
    (SecondPassDone /\ method = "judge_multiple_news"
        /\ fn_out.method = "judge_multiple_news") =>
        /\ fn_out.threshold < j_threshold =>
              Elements(returned) \subseteq Elements(fn_out.returned)
        /\ j_threshold < fn_out.threshold =>
              Elements(fn_out.returned) \subseteq Elements(returned)

\* two items retained at threshold 0.5, one of them no longer at 0.7
C27_Witness ==
    /\ SecondPassDone
    /\ method = "judge_multiple_news" /\ fn_out.method = "judge_multiple_news"
    /\ fn_out.threshold = 50 /\ j_threshold = 70
    /\ Len(fn_out.returned) = 2 /\ Len(returned) = 1
    /\ Elements(returned) \subseteq Elements(fn_out.returned)

\* C30: judge_multiple_news, whatever its batch size, and
\* judge_news_sequential, given one list, one threshold and the same
\* replies, issue the same requests, one per item in input order, return
\* the same list and leave the same items.
C30_BatchedEqualsSequential ==
    (SecondPassDone /\ fn_out.method # method /\ fn_out.threshold = j_threshold) =>
        /\ [n \in 1..Len(requests) |-> requests[n][1]] = j_news_items
        /\ fn_out.requests = requests
        /\ fn_out.returned = returned
        /\ fn_out.items = items

\* a list of two items in batches of one, then in sequence: one call failed,
\* one item was retained and enriched
C30_Witness ==
    /\ SecondPassDone
    /\ fn_out.method = "judge_multiple_news" /\ fn_out.batch_size = 1
    /\ method = "judge_news_sequential" /\ fn_out.threshold = j_threshold
    /\ Len(j_news_items) = 2 /\ Len(returned) = 1
    /\ \E n \in 1..2 : requests[n][2] = Raise
    /\ items # fn_in.items

-----------------------------------------------------------------------------
(* Specification SpecDefaultWindow: get_default_time_window at every reading
   of the clock of the model *)

\* Friday 15 to Thursday 21 December 2023, and the turn of the year
ClockReadings ==
    [y : {2023}, m : {12}, d : 15..21, hh : {0, 9, 10, 15, 23}, mi : {0, 59}, ss : {0, 59}]
    \cup [y : {2024}, m : {1}, d : {1}, hh : {0, 9, 10, 15, 23}, mi : {0, 59}, ss : {0, 59}]

InitDefaultWindow ==
    /\ JudgeIdle
    /\ PipeIdle
    /\ fn_pc = "ready"
    /\ fn_op = "none"
    /\ fn_in \in ClockReadings
    /\ fn_out = <<>>

CallGetDefaultTimeWindow ==
    /\ fn_pc = "ready"
    /\ fn_pc' = "done"
    /\ fn_op' = "get_default_time_window"
    /\ fn_out' = get_default_time_window(fn_in)
    /\ UNCHANGED <<fn_in, judgeVars, pipeVars>>

NextDefaultWindow == CallGetDefaultTimeWindow

SpecDefaultWindow == InitDefaultWindow /\ [][NextDefaultWindow]_vars

\* 10:00 KST of the day that lies back days before the day of now
TenOClock(now, back) == KstInstant(now.y, now.m, now.d, 10) - back * 86400

\* C28: at every time of day the window runs from 10:00 of the previous day
\* to 10:00 of the current day, on a Monday from 10:00 of the Friday before
\* to 10:00 of that Monday, and start <= end.
C28_DocumentedWindow ==
    (fn_pc = "done" /\ fn_op = "get_default_time_window") =>
        /\ fn_out[2] = TenOClock(fn_in, 0)
        /\ fn_out[1] = IF Weekday(fn_in.y, fn_in.m, fn_in.d) = 0
                       THEN TenOClock(fn_in, 3) ELSE TenOClock(fn_in, 1)
        /\ fn_out[1] <= fn_out[2]

\* what does hold: before 10:00 the window is the documented one, from 10:00
\* on it is the documented one moved a day later, and start <= end
WindowBeforeAndAfterTen ==
    (fn_pc = "done" /\ fn_op = "get_default_time_window") =>
        \E later \in {IF fn_in.hh < 10 THEN 0 ELSE 1} :
            /\ fn_out[2] = TenOClock(fn_in, 0) + later * 86400
            /\ fn_out[1] = IF Weekday(fn_in.y, fn_in.m, fn_in.d) = 0
                           THEN TenOClock(fn_in, 3) + later * 86400
                           ELSE TenOClock(fn_in, 1) + later * 86400
            /\ fn_out[1] < fn_out[2]

=============================================================================
